---------------------------- MODULE Spec2Model ----------------------------
(***************************************************************************)
(* Model of the screen-to-code discovery pipeline of signal-rust-setup     *)
(* (src/src/qr.rs): the scan loop scan_screen_for_signal_uri, the display  *)
(* capture multiplexer capture_screens_for_attempt and the decode          *)
(* orchestrator decode_signal_qr_from_image with its two backends.         *)
(*                                                                         *)
(* Texts, paths and error messages are strings, built as the code builds   *)
(* them.  A grayscale image is described by its dimensions and by the      *)
(* chain of transforms that produced it from the capture; what the two     *)
(* decoding libraries read from an image is an input of the model.         *)
(***************************************************************************)
EXTENDS Integers, Sequences, FiniteSets, TLC

VARIABLES
    interval,       \* argument `interval` of scan_screen_for_signal_uri
    attempts,       \* argument `attempts` of scan_screen_for_signal_uri
    macos,          \* build target: TRUE for target_os = "macos"
    tool,           \* environment: how the screencapture tool behaves during the scan (ToolBehaviours)
    qrVisible,      \* environment: the pairing QR is shown on every display during the whole scan
    pc,             \* position in scan_screen_for_signal_uri
    tempDir,        \* the TempDir exists
    disk,           \* screenshot files that exist under the temporary directory
    display_count,  \* local `display_count`
    attempt,        \* loop variable `attempt`
    queue,          \* the part of `screenshot_paths` not yet decoded
    result,         \* the value scan_screen_for_signal_uri returned
    decoded,        \* the value the last call of decode_signal_qr_from_image returned
    progress,       \* position of the progress bar (pb.inc)
    displayQueried, \* detect_display_count has run
    toolCalls,      \* number of screencapture invocations so far
    tried,          \* capture strategies the last capture_screens_for_attempt ran, with their success
    captured,       \* attempt numbers passed to capture_screens_for_attempt, in order
    opened,         \* paths passed to decode_signal_qr_from_image, in order
    slept,          \* <<attempt, seconds>> of every thread::sleep of the loop, in order
    cpc,            \* position in capture_screen_images
    cpaths,         \* argument `paths` of capture_screen_images
    child,          \* the spawned screencapture process: "none", "running", "exited" (not reaped), "reaped", "lost"
    status,         \* exit status of the child once it has exited: "zero", "nonzero", "signal"
    hangs,          \* environment: the process of this call never exits on its own
    elapsed,        \* start.elapsed() in polling periods
    cres,           \* the value capture_screen_images returned
    calls,          \* number of capture_screen_images calls started
    orphans,        \* children of earlier calls that were alive when their call returned
    killed,         \* child.kill() was called in this call
    waited,         \* child.wait() was called in this call
    fn,             \* the function a single call applies
    arg,            \* its input
    ret,            \* the value it returned
    proc,           \* the procedure of lib.rs or docker.rs that is running
    ppc,            \* position in it
    pin,            \* its arguments and build target
    locals,         \* its local variables
    io,             \* what it has done outside the process so far, in order
    pret            \* the value it returned

envVars  == <<interval, attempts, macos, tool, qrVisible>>
scanVars == <<pc, tempDir, disk, display_count, attempt, queue, result, decoded, progress>>
histVars == <<displayQueried, toolCalls, tried, captured, opened, slept>>
captureVars == <<cpc, cpaths, child, status, hangs, elapsed, cres, calls, orphans, killed, waited>>
callVars    == <<fn, arg, ret>>
procVars    == <<proc, ppc, pin, locals, io, pret>>
auxVars  == <<captureVars, callVars, procVars>>
vars     == <<envVars, scanVars, histVars, auxVars>>

-----------------------------------------------------------------------------
(* Bounds of the model *)

MaxAttempts == 2
MaxDisplays == 2
MaxCalls == 2
MaxLag == 2
MaxReported == 8
MaxSide == 10
MaxPixelSide == 3
MaxRetries == 3

\* constants of lib.rs
POST_LINK_SYNC_PASSES == 3
POST_LINK_RECEIVE_TIMEOUT_SECS == 12
POST_LINK_RECEIVE_MAX_MESSAGES == 100

Intervals == {0, 2}

(* Program constants *)

QR_FAST_MAX_DIMENSION == 1600
QR_RXING_MAX_PIXELS == 3000000
MAX_DETECTED_DISPLAYS == 6
SCREEN_CAPTURE_TIMEOUT_SECS == 12
DOCKER_START_TIMEOUT_SECS == 90

SignalPrefix == "sgnl://linkdevice"

-----------------------------------------------------------------------------
(* Values *)

Ok(v)   == [tag |-> "Ok", val |-> v]
Err(m)  == [tag |-> "Err", val |-> m]
Some(v) == [tag |-> "Some", val |-> v]
None    == [tag |-> "None", val |-> ""]
Pending == [tag |-> "Pending", val |-> ""]

IsOk(r)   == r.tag = "Ok"
IsErr(r)  == r.tag = "Err"
IsSome(r) == r.tag = "Some"

RECURSIVE SeqTo(_)
SeqTo(n) == IF n <= 0 THEN <<>> ELSE Append(SeqTo(n - 1), n)

-----------------------------------------------------------------------------
(* Strings: str::starts_with and str::trim *)

starts_with(s, prefix) ==
    /\ Len(s) >= Len(prefix)
    /\ SubSeq(s, 1, Len(prefix)) = prefix

IsWhitespace(c) == c \in {" ", "\n", "\t", "\r"}

RECURSIVE trim_start(_)
trim_start(s) ==
    IF Len(s) > 0 /\ IsWhitespace(SubSeq(s, 1, 1))
    THEN trim_start(SubSeq(s, 2, Len(s)))
    ELSE s

RECURSIVE trim_end(_)
trim_end(s) ==
    IF Len(s) > 0 /\ IsWhitespace(SubSeq(s, Len(s), Len(s)))
    THEN trim_end(SubSeq(s, 1, Len(s) - 1))
    ELSE s

trim(s) == trim_end(trim_start(s))

-----------------------------------------------------------------------------
(* Grayscale images.  An image is its dimensions, the dimensions of the    *)
(* images it was resampled from (oldest first) and the binarization        *)
(* applied to it; two descriptors are equal iff the pixel buffers are.     *)

NoThreshold == [on |-> FALSE, level |-> 0, invert |-> FALSE]

BaseImage(w, h) == [w |-> w, h |-> h, from |-> <<>>, bin |-> NoThreshold]

Max(a, b) == IF a >= b THEN a ELSE b
Min(a, b) == IF a <= b THEN a ELSE b

\* Single-precision numbers: neg, m and e stand for the value m * 2^e (negated
\* when neg), m = 0 or 2^23 <= m < 2^24.  Infinities, NaN and subnormal
\* numbers are not used.
Pow2(n) == 2^n

F32Zero == [neg |-> FALSE, m |-> 0, e |-> 0]
F32One  == [neg |-> FALSE, m |-> Pow2(23), e |-> -23]

\* round to nearest, ties to even: n is the mantissa, `half` the first bit
\* cut off and `sticky` whether a later one is set
RoundNearestEven(n, e, half, sticky) ==
    LET up == half /\ (sticky \/ (n % 2) = 1)
    IN  IF ~up THEN [neg |-> FALSE, m |-> n, e |-> e]
        ELSE IF n + 1 = Pow2(24) THEN [neg |-> FALSE, m |-> Pow2(23), e |-> e + 1]
        ELSE [neg |-> FALSE, m |-> n + 1, e |-> e]

RECURSIVE Normalize(_, _, _, _)
Normalize(n, e, half, sticky) ==
    IF n >= Pow2(24)
    THEN Normalize(n \div 2, e + 1, (n % 2) = 1, sticky \/ half)
    ELSE IF n < Pow2(23)
         THEN Normalize(2 * n, e - 1, FALSE, FALSE)
         ELSE RoundNearestEven(n, e, half, sticky)

\* `n as f32` of an unsigned integer
as_f32(n) == IF n = 0 THEN F32Zero ELSE Normalize(n, 0, FALSE, FALSE)

\* `steps` more bits of the quotient q, remainder r, of a division by d
RECURSIVE DivBits(_, _, _, _)
DivBits(q, r, d, steps) ==
    IF steps = 0
    THEN [q |-> q, r |-> r]
    ELSE IF 2 * r >= d
         THEN DivBits((2 * q) + 1, (2 * r) - d, d, steps - 1)
         ELSE DivBits(2 * q, 2 * r, d, steps - 1)

\* a / b in f32, b # 0
f32_div(a, b) ==
    IF a.m = 0
    THEN F32Zero
    ELSE LET bits == DivBits(a.m \div b.m, a.m % b.m, b.m, 25)
             quot == Normalize(bits.q, a.e - b.e - 25, FALSE, bits.r # 0)
         IN  [quot EXCEPT !.neg = (a.neg # b.neg)]

\* a * b in f32: the 48-bit product of the mantissas is high * 2^24 + low
f32_mul(a, b) ==
    IF a.m = 0 \/ b.m = 0
    THEN F32Zero
    ELSE LET ah == a.m \div 4096
             al == a.m % 4096
             bh == b.m \div 4096
             bl == b.m % 4096
             t0 == al * bl
             t1 == (ah * bl) + (al * bh) + (t0 \div 4096)
             high == (ah * bh) + (t1 \div 4096)
             low  == ((t1 % 4096) * 4096) + (t0 % 4096)
             prod == IF high >= Pow2(23)
                     THEN RoundNearestEven(high, a.e + b.e + 24,
                                           low >= Pow2(23), (low % Pow2(23)) # 0)
                     ELSE RoundNearestEven((2 * high) + (low \div Pow2(23)), a.e + b.e + 23,
                                           (low % Pow2(23)) >= Pow2(22),
                                           (low % Pow2(22)) # 0)
         IN  [prod EXCEPT !.neg = (a.neg # b.neg)]

\* the f32 literal num / den (the nearest f32) and its negation
f32_lit(num, den) == f32_div(as_f32(num), as_f32(den))
f32_neg(a) == [a EXCEPT !.neg = ~a.neg]

\* (scale - 1.0).abs() < f32::EPSILON: the subtraction is exact that close to 1
NearOne(scale) ==
    /\ ~scale.neg
    /\ \/ scale.m = Pow2(23) /\ scale.e = -23
       \/ scale.m = Pow2(24) - 1 /\ scale.e = -24

\* mutant: x.round() as u32, without the lower bound of one pixel
round_as_u32(x) ==
    IF x.neg \/ x.m = 0
    THEN 0
    ELSE IF x.e >= 0
         THEN x.m * Pow2(x.e)
         ELSE IF -x.e > 24
              THEN 0
              ELSE (x.m + Pow2(-x.e - 1)) \div Pow2(-x.e)

\* x.round().max(1.0) as u32: f32::round rounds half away from zero
round_max1_as_u32(x) ==
    IF x.neg \/ x.m = 0
    THEN 1
    ELSE IF x.e >= 0
         THEN x.m * Pow2(x.e)
         ELSE IF -x.e > 24
              THEN 1
              ELSE Max((x.m + Pow2(-x.e - 1)) \div Pow2(-x.e), 1)

\* one dimension of the scaled image
scaled_dimension(side, scale) == round_max1_as_u32(f32_mul(as_f32(side), scale))

\* scale_luma_image; a nearest-neighbour resize to the image's own dimensions
\* copies every pixel
scale_luma_image(image, scale) ==
    IF NearOne(scale)
    THEN image
    ELSE LET width  == scaled_dimension(image.w, scale)
             height == scaled_dimension(image.h, scale)
         IN  IF width = image.w /\ height = image.h
             THEN image
             ELSE [image EXCEPT !.w = width, !.h = height,
                                !.from = Append(image.from, <<image.w, image.h>>)]

\* mutant: the scale is taken from the shorter side
resize_luma_to_max_dimension_ByShorterSide(image, max_dimension) ==
    LET current_max == Max(image.w, image.h)
    IN  IF current_max <= max_dimension \/ current_max = 0
        THEN image
        ELSE scale_luma_image(image,
                 f32_div(as_f32(max_dimension), as_f32(Max(Min(image.w, image.h), 1))))

resize_luma_to_max_dimension(image, max_dimension) ==
    LET current_max == Max(image.w, image.h)
    IN  IF current_max <= max_dimension \/ current_max = 0
        THEN image
        ELSE scale_luma_image(image, f32_div(as_f32(max_dimension), as_f32(current_max)))

\* Pixel buffers: px[<<x, y>>] is the sample at column x, row y, a u8.
PixelImage(w, h, px) == [w |-> w, h |-> h, px |-> px]

\* mutant: a sample equal to the threshold is dark
threshold_sample_Exclusive(source, threshold, invert) ==
    LET bit == IF source > threshold THEN 255 ELSE 0
    IN  IF invert THEN 255 - bit ELSE bit

\* mutant: the polarity is ignored
threshold_sample_NoInvert(source, threshold, invert) ==
    IF source >= threshold THEN 255 ELSE 0

\* lines 220-223: one pixel of threshold_luma_image
threshold_sample(source, threshold, invert) ==
    LET bit   == IF source >= threshold THEN 255 ELSE 0
        value == IF invert THEN 255 - bit ELSE bit
    IN  value

\* threshold_luma_image on the pixels
threshold_luma_image_pixels(image, threshold, invert) ==
    PixelImage(image.w, image.h,
               [p \in DOMAIN image.px |-> threshold_sample(image.px[p], threshold, invert)])

\* threshold_luma_image of an image that is not binarized yet
threshold_luma_image(image, threshold, invert) ==
    [image EXCEPT !.bin = [on |-> TRUE, level |-> threshold, invert |-> invert]]

-----------------------------------------------------------------------------
(* Decode backends.  `read` is what the library reports for the image:     *)
(* Backend A (rxing) one Ok(text) or Err, Backend B (rqrr) one Ok(content) *)
(* or Err per detected grid, in detection order.                           *)

\* mutant: Backend A without the prefix filter
rxing_unfiltered(read) ==
    IF ~IsOk(read) THEN None ELSE Some(trim(read.val))

decode_signal_qr_with_rxing_luma(read) ==
    IF ~IsOk(read)
    THEN None
    ELSE LET text == trim(read.val)
         IN  IF starts_with(text, SignalPrefix) THEN Some(text) ELSE None

\* decode_signal_qr_with_rxing: Backend A on the file at `path`
decode_signal_qr_with_rxing(path, file, read) ==
    IF ~file.loadable
    THEN Err("failed to open image " \o path)
    ELSE decode_signal_qr_with_rxing_luma(read)

\* mutant: Backend B without the prefix filter
RECURSIVE rqrr_unfiltered(_)
rqrr_unfiltered(grids) ==
    IF grids = <<>>
    THEN None
    ELSE IF IsOk(Head(grids))
         THEN Some(Head(grids).val)
         ELSE rqrr_unfiltered(Tail(grids))

\* mutant: Backend B trims the content as Backend A does
RECURSIVE rqrr_trimmed(_)
rqrr_trimmed(grids) ==
    IF grids = <<>>
    THEN None
    ELSE IF IsOk(Head(grids)) /\ starts_with(trim(Head(grids).val), SignalPrefix)
         THEN Some(trim(Head(grids).val))
         ELSE rqrr_trimmed(Tail(grids))

\* mutant: the search ends at the first grid that decodes
RECURSIVE rqrr_first_decoded(_)
rqrr_first_decoded(grids) ==
    IF grids = <<>>
    THEN None
    ELSE IF IsOk(Head(grids))
         THEN IF starts_with(Head(grids).val, SignalPrefix) THEN Some(Head(grids).val) ELSE None
         ELSE rqrr_first_decoded(Tail(grids))

RECURSIVE decode_signal_qr_with_rqrr(_)
decode_signal_qr_with_rqrr(grids) ==
    IF grids = <<>>
    THEN None
    ELSE IF IsOk(Head(grids)) /\ starts_with(Head(grids).val, SignalPrefix)
         THEN Some(Head(grids).val)
         ELSE decode_signal_qr_with_rqrr(Tail(grids))

PassA(image) == [backend |-> "rxing", image |-> image]
PassB(image) == [backend |-> "rqrr", image |-> image]

RunPass(pass, read) ==
    IF pass.backend = "rxing"
    THEN decode_signal_qr_with_rxing_luma(read)
    ELSE decode_signal_qr_with_rqrr(read)

\* mutant: the short ladder also tries the inverted image of its last threshold
fastpass_WithInverted(image) ==
    <<PassB(image),
      PassB(threshold_luma_image(image, 128, FALSE)),
      PassB(threshold_luma_image(image, 160, TRUE))>>

\* the Backend B passes of decode_signal_qr_with_rqrr_fastpass, in order
decode_signal_qr_with_rqrr_fastpass(image) ==
    <<PassB(image),
      PassB(threshold_luma_image(image, 128, FALSE)),
      PassB(threshold_luma_image(image, 160, FALSE))>>

\* mutant: the inverted image of a threshold is tried before the normal one
MultipassAtScale_InvertedFirst(candidate) ==
    <<PassB(candidate),
      PassB(threshold_luma_image(candidate, 110, TRUE)),
      PassB(threshold_luma_image(candidate, 110, FALSE)),
      PassB(threshold_luma_image(candidate, 140, TRUE)),
      PassB(threshold_luma_image(candidate, 140, FALSE)),
      PassB(threshold_luma_image(candidate, 170, TRUE)),
      PassB(threshold_luma_image(candidate, 170, FALSE))>>

\* lines 108-125: the passes on one scaled candidate
MultipassAtScale(candidate) ==
    <<PassB(candidate),
      PassB(threshold_luma_image(candidate, 110, FALSE)),
      PassB(threshold_luma_image(candidate, 110, TRUE)),
      PassB(threshold_luma_image(candidate, 140, FALSE)),
      PassB(threshold_luma_image(candidate, 140, TRUE)),
      PassB(threshold_luma_image(candidate, 170, FALSE)),
      PassB(threshold_luma_image(candidate, 170, TRUE))>>

\* the Backend B passes of decode_signal_qr_with_rqrr_multipass, in order
decode_signal_qr_with_rqrr_multipass(image) ==
    MultipassAtScale(scale_luma_image(image, f32_lit(100, 100)))
      \o MultipassAtScale(scale_luma_image(image, f32_lit(85, 100)))
      \o MultipassAtScale(scale_luma_image(image, f32_lit(120, 100)))

\* mutant: a capture of exactly QR_RXING_MAX_PIXELS pixels is too large
FullResolutionAffordable_Strict(pixel_count) == pixel_count < QR_RXING_MAX_PIXELS

\* line 74
FullResolutionAffordable(pixel_count) == pixel_count <= QR_RXING_MAX_PIXELS

\* mutant: the last stage of a large capture decodes the fast variant again
DecodePasses_NoUpscale(base) ==
    LET fast == resize_luma_to_max_dimension(base, QR_FAST_MAX_DIMENSION)
        pixel_count == base.w * base.h
    IN  <<PassA(fast)>> \o decode_signal_qr_with_rqrr_fastpass(fast)
          \o (IF FullResolutionAffordable(pixel_count)
              THEN <<PassA(base)>> \o decode_signal_qr_with_rqrr_multipass(base)
              ELSE <<PassA(fast)>> \o decode_signal_qr_with_rqrr_fastpass(fast))

\* the passes decode_signal_qr_from_image runs on a loaded image until one matches
DecodePasses(base) ==
    LET fast == resize_luma_to_max_dimension(base, QR_FAST_MAX_DIMENSION)
        pixel_count == base.w * base.h
    IN  <<PassA(fast)>> \o decode_signal_qr_with_rqrr_fastpass(fast)
          \o (IF FullResolutionAffordable(pixel_count)
              THEN <<PassA(base)>> \o decode_signal_qr_with_rqrr_multipass(base)
              ELSE LET upscaled_fast == scale_luma_image(fast, f32_lit(115, 100))
                   IN  <<PassA(upscaled_fast)>>
                         \o decode_signal_qr_with_rqrr_fastpass(upscaled_fast))

RECURSIVE FirstMatch(_, _, _)
FirstMatch(passes, reads, i) ==
    IF i > Len(passes)
    THEN None
    ELSE LET uri == RunPass(passes[i], reads[i])
         IN  IF IsSome(uri) THEN uri ELSE FirstMatch(passes, reads, i + 1)

\* mutant: exhausting the strategies is reported as an error
decode_signal_qr_from_image_AbsenceIsError(path, file, reads) ==
    IF ~file.loadable
    THEN Err("failed to open image " \o path)
    ELSE LET uri == FirstMatch(DecodePasses(BaseImage(file.w, file.h)), reads, 1)
         IN  IF IsSome(uri) THEN uri ELSE Err("no QR code found in " \o path)

\* decode_signal_qr_from_image (cfg(not(test))) of the file at `path`: `file` is
\* what image::open finds there, reads[i] what the libraries read in the i-th
\* pass.  Err(message), Some(uri) or None
decode_signal_qr_from_image(path, file, reads) ==
    IF ~file.loadable
    THEN Err("failed to open image " \o path)
    ELSE FirstMatch(DecodePasses(BaseImage(file.w, file.h)), reads, 1)

-----------------------------------------------------------------------------
(* Display capture multiplexer *)

\* mutant: the name of a display's file does not hold the attempt number
ScreenPath_NoAttempt(attempt_no, display_idx) ==
    "screen-display-" \o ToString(display_idx) \o ".png"

ScreenPath(attempt_no, display_idx) ==
    "screen-" \o ToString(attempt_no) \o "-display-" \o ToString(display_idx) \o ".png"

SinglePath(attempt_no) == "screen-" \o ToString(attempt_no) \o ".png"

DisplayPaths(attempt_no, n) == [i \in 1..n |-> ScreenPath(attempt_no, i)]

\* how one screencapture invocation can end
ToolFailures == {"nonzero", "timeout", "spawn_error", "wait_error"}
ToolOutcomes == {"ok"} \cup ToolFailures

\* the tool's behaviour over a scan: "unreliable", every invocation ends in any
\* of the outcomes; "fails_once", the first invocation of the scan exits non-zero
\* and every later one exits 0
ToolBehaviours == {"unreliable", "fails_once"}

\* the outcome of the n-th invocation of the scan; `free` is the outcome an
\* unreliable tool happens to have
ToolRun(behaviour, n, free) ==
    IF behaviour = "fails_once"
    THEN IF n = 1 THEN "nonzero" ELSE "ok"
    ELSE free

TimeoutMessage ==
    "screencapture timed out after " \o ToString(SCREEN_CAPTURE_TIMEOUT_SECS)
      \o "s (check Screen Recording permissions and active desktop session)"

\* capture_screen_images when the spawned process ends as `outcome`
capture_screen_images(paths, outcome) ==
    IF paths = <<>> THEN Err("no screenshot output path provided")
    ELSE IF outcome = "spawn_error" THEN Err("failed to run screencapture")
    ELSE IF outcome = "wait_error" THEN Err("failed while waiting for screencapture")
    ELSE IF outcome = "ok" THEN Ok("")
    ELSE IF outcome = "nonzero"
         THEN Err("screencapture failed (check Screen Recording permissions)")
    ELSE Err(TimeoutMessage)

capture_screen_image(path, outcome) == capture_screen_images(<<path>>, outcome)

\* what Monitor::all and the per-monitor capture and save do: `saved` of the
\* `monitors` enumerated monitors are captured and saved before the first failure
\* (every monitor, or every monitor but the last)
XcapRuns ==
    [enumerated : {FALSE}, monitors : {0}, saved : {0}]
      \cup {x \in [enumerated : {TRUE}, monitors : 0..MaxDisplays, saved : 0..MaxDisplays] :
              x.saved \in {x.monitors, x.monitors - 1}}

capture_screens_with_xcap(attempt_no, x) ==
    IF ~x.enumerated THEN Err("failed to enumerate displays with xcap")
    ELSE IF x.monitors = 0 THEN Ok(<<>>)
    ELSE IF x.saved < x.monitors THEN Err("failed to capture display with xcap")
    ELSE Ok(DisplayPaths(attempt_no, x.monitors))

Strategy(name, ok) == [strategy |-> name, ok |-> ok]

\* the single-display capture at the end of capture_screens_for_attempt
SingleCapture(attempt_no, outcome, before) ==
    LET single_path == SinglePath(attempt_no)
        r == capture_screen_image(single_path, outcome)
    IN  [res   |-> IF IsOk(r) THEN Ok(<<single_path>>) ELSE r,
         tried |-> Append(before, Strategy("single", IsOk(r))),
         tools |-> 1]

\* mutant: the library capture's error is propagated with `?`
XcapThenSingle_Propagate(attempt_no, x, outcome, before) ==
    LET r == capture_screens_with_xcap(attempt_no, x)
    IN  IF IsErr(r)
        THEN [res   |-> r,
              tried |-> Append(before, Strategy("xcap", FALSE)),
              tools |-> 0]
        ELSE IF r.val # <<>>
        THEN [res   |-> r,
              tried |-> Append(before, Strategy("xcap", TRUE)),
              tools |-> 0]
        ELSE SingleCapture(attempt_no, outcome, Append(before, Strategy("xcap", FALSE)))

\* mutant: an empty list from the library capture is returned like any other
XcapThenSingle_AcceptEmpty(attempt_no, x, outcome, before) ==
    LET r == capture_screens_with_xcap(attempt_no, x)
    IN  IF IsOk(r)
        THEN [res   |-> r,
              tried |-> Append(before, Strategy("xcap", TRUE)),
              tools |-> 0]
        ELSE SingleCapture(attempt_no, outcome, Append(before, Strategy("xcap", FALSE)))

\* the library capture inside capture_screens_for_attempt, then the fall through
XcapThenSingle(attempt_no, x, outcome, before) ==
    LET r == capture_screens_with_xcap(attempt_no, x)
        usable == IsOk(r) /\ r.val # <<>>
    IN  IF usable
        THEN [res   |-> r,
              tried |-> Append(before, Strategy("xcap", TRUE)),
              tools |-> 0]
        ELSE SingleCapture(attempt_no, outcome, Append(before, Strategy("xcap", FALSE)))

\* mutant: the multi-display invocation's error is propagated with `?`
capture_screens_for_attempt_NoFallback(attempt_no, count, is_macos, env) ==
    IF count > 1
    THEN LET multi_paths == DisplayPaths(attempt_no, count)
             multi == capture_screen_images(multi_paths, env.first)
         IN  [res   |-> IF IsOk(multi) THEN Ok(multi_paths) ELSE multi,
              tried |-> <<Strategy("multi", IsOk(multi))>>,
              tools |-> 1]
    ELSE IF is_macos
         THEN SingleCapture(attempt_no, env.first, <<>>)
         ELSE XcapThenSingle(attempt_no, env.xcap, env.first, <<>>)

\* mutant: after the multi-display invocation fails the library capture is skipped
capture_screens_for_attempt_SkipXcap(attempt_no, count, is_macos, env) ==
    IF count > 1
    THEN LET multi_paths == DisplayPaths(attempt_no, count)
             multi == capture_screen_images(multi_paths, env.first)
         IN  IF IsOk(multi)
             THEN [res   |-> Ok(multi_paths),
                   tried |-> <<Strategy("multi", TRUE)>>,
                   tools |-> 1]
             ELSE LET rest == SingleCapture(attempt_no, env.second,
                                            <<Strategy("multi", FALSE)>>)
                  IN  [rest EXCEPT !.tools = rest.tools + 1]
    ELSE IF is_macos
         THEN SingleCapture(attempt_no, env.first, <<>>)
         ELSE XcapThenSingle(attempt_no, env.xcap, env.first, <<>>)

\* capture_screens_for_attempt; env.first and env.second are the outcomes of the
\* first and second screencapture invocation it makes, env.xcap what the library
\* does.  res: the returned value; tried: the strategies run, in order;
\* tools: the number of screencapture invocations made
capture_screens_for_attempt(attempt_no, count, is_macos, env) ==
    IF count > 1
    THEN LET multi_paths == DisplayPaths(attempt_no, count)
             multi == capture_screen_images(multi_paths, env.first)
         IN  IF IsOk(multi)
             THEN [res   |-> Ok(multi_paths),
                   tried |-> <<Strategy("multi", TRUE)>>,
                   tools |-> 1]
             ELSE LET rest == XcapThenSingle(attempt_no, env.xcap, env.second,
                                             <<Strategy("multi", FALSE)>>)
                  IN  [rest EXCEPT !.tools = rest.tools + 1]
    ELSE IF is_macos
         THEN SingleCapture(attempt_no, env.first, <<>>)
         ELSE XcapThenSingle(attempt_no, env.xcap, env.first, <<>>)

\* the files a capture_screens_for_attempt call leaves on disk: a successful
\* screencapture creates the first env.made of the files it was asked for (all of
\* them when env.made is at least their number), the library the files it saved
\* before it failed
RanStrategy(run, name) == \E i \in 1..Len(run.tried) : run.tried[i].strategy = name
StrategyOk(run, name)  == \E i \in 1..Len(run.tried) : run.tried[i] = Strategy(name, TRUE)

FilesWritten(attempt_no, count, env, run) ==
    (IF StrategyOk(run, "multi")
     THEN {ScreenPath(attempt_no, i) : i \in 1..Min(env.made, count)} ELSE {})
    \cup (IF RanStrategy(run, "xcap")
          THEN {ScreenPath(attempt_no, i) : i \in 1..env.xcap.saved} ELSE {})
    \cup (IF StrategyOk(run, "single") /\ env.made >= 1
          THEN {SinglePath(attempt_no)} ELSE {})

\* mutant: the library's count is returned as it is
detect_display_count_Unclamped(sys) ==
    IF sys.profiler = "ok"
    THEN Min(IF sys.lines = 0 THEN 1 ELSE sys.lines, MAX_DETECTED_DISPLAYS)
    ELSE IF sys.monitors > 0
         THEN sys.monitors
         ELSE 1

\* mutant: a successful query without a resolution line falls through to the
\* library
detect_display_count_ZeroFallsThrough(sys) ==
    IF sys.profiler = "ok" /\ sys.lines > 0
    THEN Min(sys.lines, MAX_DETECTED_DISPLAYS)
    ELSE IF sys.monitors > 0
         THEN Min(sys.monitors, MAX_DETECTED_DISPLAYS)
         ELSE 1

\* detect_display_count; sys.profiler is "missing", "failed" or "ok", sys.lines the
\* number of "Resolution:" lines, sys.monitors what Monitor::all enumerates (-1: Err)
detect_display_count(sys) ==
    IF sys.profiler = "ok"
    THEN Min(IF sys.lines = 0 THEN 1 ELSE sys.lines, MAX_DETECTED_DISPLAYS)
    ELSE IF sys.monitors > 0
         THEN Min(sys.monitors, MAX_DETECTED_DISPLAYS)
         ELSE 1

SysInfos ==
    [profiler : {"missing", "failed", "ok"}, lines : 0..MaxDisplays, monitors : -1..MaxDisplays]

-----------------------------------------------------------------------------
(* Inputs of the scan *)

Payload      == "sgnl://linkdevice?uuid=live"
OtherPayload == "sgnl://linkdevice?uuid=other"

\* texts a QR code on screen may hold, as the libraries report them
RawTexts ==
    {Payload, " " \o Payload \o "\n", OtherPayload, SignalPrefix,
     "https://signal.org/", "xsgnl://linkdevice", ""}

ReadsA == {Err("")} \cup {Ok(t) : t \in RawTexts}
ReadsB == {<<>>} \cup {<<g>> : g \in ReadsA}
            \cup {<<f, g>> : f \in {Err(""), Ok("https://signal.org/")}, g \in ReadsA}

\* captures of a small window, of a display of exactly QR_RXING_MAX_PIXELS pixels
\* and of a larger display
ImageSizes == {<<640, 480>>, <<2000, 1500>>, <<2560, 1440>>}

MissingFile == [loadable |-> FALSE, w |-> 0, h |-> 0]
ImageFiles  == {[loadable |-> TRUE, w |-> d[1], h |-> d[2]] : d \in ImageSizes}

\* what the libraries read from a capture: one pass reads r, every other pass
\* reads nothing or (noise) an unrelated code
Background(pass, noise) ==
    IF pass.backend = "rxing"
    THEN IF noise THEN Ok("https://signal.org/") ELSE Err("")
    ELSE IF noise THEN <<Ok("https://signal.org/")>> ELSE <<>>

ReadsOf(passes, visible) ==
    IF visible
    THEN {[i \in 1..Len(passes) |-> IF i = 1 THEN Ok(t) ELSE Background(passes[i], FALSE)] :
            t \in {Payload, " " \o Payload \o "\n"}}
    ELSE UNION {
           {[i \in 1..Len(passes) |-> IF i = p THEN r ELSE Background(passes[i], noise)] :
              r \in IF passes[p].backend = "rxing" THEN ReadsA ELSE ReadsB,
              noise \in BOOLEAN} :
           p \in 1..Len(passes)}

\* every value decode_signal_qr_from_image can return for a loadable file, over
\* all the reads above (a constant of the model: evaluated once)
DecodeResults ==
    [file \in ImageFiles, visible \in BOOLEAN |->
       {decode_signal_qr_from_image("", file, reads) :
          reads \in ReadsOf(DecodePasses(BaseImage(file.w, file.h)), visible)}]

-----------------------------------------------------------------------------
(* scan_screen_for_signal_uri *)

ExhaustedMessage(n) ==
    "no valid Signal Desktop QR found after " \o ToString(n) \o " attempts"

\* the capture_screen_images call and the single calls are not part of a run
CaptureOff ==
    /\ cpc = "off"
    /\ cpaths = <<>>
    /\ child = "none"
    /\ status = "none"
    /\ hangs = FALSE
    /\ elapsed = 0
    /\ cres = Pending
    /\ calls = 0
    /\ orphans = 0
    /\ killed = FALSE
    /\ waited = FALSE

CallOff ==
    /\ fn = "none"
    /\ arg = <<>>
    /\ ret = Pending

ProcOff ==
    /\ proc = "none"
    /\ ppc = "off"
    /\ pin = <<>>
    /\ locals = <<>>
    /\ io = <<>>
    /\ pret = Pending

Init ==
    /\ interval \in Intervals
    /\ attempts \in 0..MaxAttempts
    /\ macos \in BOOLEAN
    /\ tool \in ToolBehaviours
    /\ qrVisible \in BOOLEAN
    /\ pc = "start"
    /\ tempDir = FALSE
    /\ disk = {}
    /\ display_count = 0
    /\ attempt = 0
    /\ queue = <<>>
    /\ result = Pending
    /\ decoded = Pending
    /\ progress = 0
    /\ displayQueried = FALSE
    /\ toolCalls = 0
    /\ tried = <<>>
    /\ captured = <<>>
    /\ opened = <<>>
    /\ slept = <<>>
    /\ CaptureOff
    /\ CallOff
    /\ ProcOff

\* the function returns r: the TempDir is dropped with everything in it
\* mutant: the temporary directory is removed only when a payload was found
Return_KeepOnError(r) ==
    /\ result' = r
    /\ pc' = "done"
    /\ IF IsErr(r) THEN UNCHANGED <<tempDir, disk>> ELSE tempDir' = FALSE /\ disk' = {}

Return(r) ==
    /\ result' = r
    /\ pc' = "done"
    /\ tempDir' = FALSE
    /\ disk' = {}

\* lines 17-18: tempdir() and detect_display_count()
Begin ==
    /\ pc = "start"
    /\ \/ /\ Return(Err("failed to create temporary directory"))
          /\ UNCHANGED <<display_count, attempt, displayQueried>>
       \/ /\ tempDir' = TRUE
          /\ \E sys \in SysInfos : display_count' = detect_display_count(sys)
          /\ displayQueried' = TRUE
          /\ attempt' = 1
          /\ pc' = "loop"
          /\ UNCHANGED <<disk, result>>
    /\ UNCHANGED <<envVars, queue, decoded, progress,
                   toolCalls, tried, captured, opened, slept, auxVars>>

\* mutant: the range is 0..=attempts, one iteration too many
AttemptsRemain_OneMore == attempt <= attempts + 1

\* mutant: the range is 1..attempts, the last attempt is never made
AttemptsRemain_Exclusive == attempt < attempts

\* mutant: the loop body runs before the bound is tested
AttemptsRemain_DoWhile == attempt = 1 \/ attempt <= attempts

\* line 31: `for attempt in 1..=attempts` has another iteration to run
AttemptsRemain == attempt <= attempts

\* line 31: the loop variable of the next iteration
NextAttempt == attempt + 1

\* mutant: the loop sleeps after every attempt, the last one included
SleepsAfterAttempt_Always == attempt <= attempts

\* line 48: `if attempt < attempts`
SleepsAfterAttempt == attempt < attempts

\* mutant: a failed capture counts as an attempt without images
ScanOnCaptured_Swallow(r, files) ==
    /\ queue' = IF IsErr(r) THEN <<>> ELSE r.val
    /\ pc' = "decode"
    /\ disk' = disk \cup files
    /\ UNCHANGED <<tempDir, result>>

\* lines 33-34: `capture_screens_for_attempt(...)?`; `files` is what the call left on disk
ScanOnCaptured(r, files) ==
    IF IsErr(r)
    THEN Return(r) /\ UNCHANGED queue
    ELSE /\ queue' = r.val
         /\ pc' = "decode"
         /\ disk' = disk \cup files
         /\ UNCHANGED <<tempDir, result>>

\* lines 31-34: the loop head and the capture of one attempt
CaptureAttempt ==
    /\ pc = "loop"
    /\ AttemptsRemain
    /\ \E first \in ToolOutcomes, second \in ToolOutcomes,
          x \in XcapRuns, made \in {0, 1, MaxDisplays} :
         LET env == [first  |-> ToolRun(tool, toolCalls + 1, first),
                     second |-> ToolRun(tool, toolCalls + 2, second),
                     xcap   |-> x,
                     made   |-> made]
             run == capture_screens_for_attempt(attempt, display_count, macos, env)
         IN  /\ qrVisible => made = MaxDisplays
             /\ tool = "fails_once" => first = "ok" /\ second = "ok"
             \* an input the call does not consume has one value
             /\ ~RanStrategy(run, "xcap") => x = [enumerated |-> FALSE, monitors |-> 0, saved |-> 0]
             /\ run.tools < 2 => second = "ok"
             /\ run.tools = 0 => first = "ok"
             /\ ~(StrategyOk(run, "multi") \/ StrategyOk(run, "single")) => made = MaxDisplays
             /\ captured' = Append(captured, attempt)
             /\ tried' = run.tried
             /\ toolCalls' = toolCalls + run.tools
             /\ ScanOnCaptured(run.res, FilesWritten(attempt, display_count, env, run))
    /\ UNCHANGED <<envVars, display_count, attempt,
                   decoded, progress, displayQueried, opened, slept, auxVars>>

\* mutant: a match is noted but the remaining screenshots are still decoded
ScanOnDecoded_NoShortCircuit(d) ==
    IF IsErr(d) THEN Return(d) /\ UNCHANGED queue
    ELSE IF IsSome(d) /\ Len(queue) = 1 THEN Return(Ok(d.val)) /\ UNCHANGED queue
    ELSE /\ queue' = Tail(queue)
         /\ UNCHANGED <<pc, tempDir, disk, result>>

\* lines 38-41: what the loop does with the value `d` of a decode call
ScanOnDecoded(d) ==
    IF IsErr(d) THEN Return(d) /\ UNCHANGED queue
    ELSE IF IsSome(d) THEN Return(Ok(d.val)) /\ UNCHANGED queue
    ELSE /\ queue' = Tail(queue)
         /\ UNCHANGED <<pc, tempDir, disk, result>>

\* lines 37-38: the next screenshot is decoded
DecodeNext ==
    /\ pc = "decode"
    /\ queue # <<>>
    /\ LET path == Head(queue)
       IN  /\ opened' = Append(opened, path)
           /\ \E d \in (IF path \in disk
                        THEN UNION {DecodeResults[file, qrVisible] : file \in ImageFiles}
                        ELSE {decode_signal_qr_from_image(path, MissingFile, <<>>)}) :
                /\ decoded' = d
                /\ ScanOnDecoded(d)
    /\ UNCHANGED <<envVars, display_count, attempt, progress,
                   displayQueried, toolCalls, tried, captured, slept, auxVars>>

\* lines 44-50: no screenshot of the attempt held a payload
AfterAttempt ==
    /\ pc = "decode"
    /\ queue = <<>>
    /\ progress' = progress + 1
    /\ slept' = IF SleepsAfterAttempt THEN Append(slept, <<attempt, interval>>) ELSE slept
    /\ attempt' = NextAttempt
    /\ pc' = "loop"
    /\ UNCHANGED <<envVars, tempDir, disk, display_count, queue, result, decoded,
                   displayQueried, toolCalls, tried, captured, opened, auxVars>>

\* lines 53-54: the loop ran out of attempts
Exhausted ==
    /\ pc = "loop"
    /\ ~AttemptsRemain
    /\ Return(Err(ExhaustedMessage(attempts)))
    /\ UNCHANGED <<envVars, display_count, attempt, queue, decoded, progress, histVars,
                   auxVars>>

Next == Begin \/ CaptureAttempt \/ DecodeNext \/ AfterAttempt \/ Exhausted

Spec == Init /\ [][Next]_vars

\* every call the scan makes returns
FairSpec == Spec /\ WF_vars(Next)

-----------------------------------------------------------------------------
(* capture_screen_images as a process: the spawned child, the polling loop *)
(* and the clock.  Times are in milliseconds.                              *)

\* the scan is not part of a run
ScanOff ==
    /\ interval = 0 /\ attempts = 0 /\ macos = FALSE
    /\ tool = "unreliable" /\ qrVisible = FALSE
    /\ pc = "off" /\ tempDir = FALSE /\ disk = {}
    /\ display_count = 0 /\ attempt = 0 /\ queue = <<>>
    /\ result = Pending /\ decoded = Pending /\ progress = 0
    /\ displayQueried = FALSE /\ toolCalls = 0 /\ tried = <<>>
    /\ captured = <<>> /\ opened = <<>> /\ slept = <<>>

poll_every == 100
timeout == SCREEN_CAPTURE_TIMEOUT_SECS * 1000

\* the clock is followed up to the first reading past the timeout
ClockCap == timeout + MaxLag * poll_every

CapturePathLists == {<<>>, <<SinglePath(1)>>, DisplayPaths(1, MaxDisplays)}

\* Child::kill: SIGKILL ends a running child; Child::wait: collects a child
\* that has exited
kill(c) == IF c = "running" THEN "exited" ELSE c
wait(c) == IF c = "exited" THEN "reaped" ELSE c

CaptureInit ==
    /\ ScanOff
    /\ CallOff
    /\ ProcOff
    /\ cpc = "start"
    /\ cpaths \in CapturePathLists
    /\ child = "none"
    /\ status = "none"
    /\ hangs \in BOOLEAN
    /\ elapsed = 0
    /\ cres = Pending
    /\ calls = 1
    /\ orphans = 0
    /\ killed = FALSE
    /\ waited = FALSE

CaptureReturn(r) ==
    /\ cres' = r
    /\ cpc' = "returned"

\* lines 234-248: the argument check, the spawn and the start of the clock
CaptureSpawn ==
    /\ cpc = "start"
    /\ IF cpaths = <<>>
       THEN /\ CaptureReturn(capture_screen_images(cpaths, "ok"))
            /\ UNCHANGED child
       ELSE \/ /\ child' = "running"
               /\ cpc' = "poll"
               /\ UNCHANGED cres
            \/ /\ CaptureReturn(capture_screen_images(cpaths, "spawn_error"))
               /\ UNCHANGED child
    /\ UNCHANGED <<cpaths, status, hangs, elapsed, calls, orphans, killed, waited>>
    /\ UNCHANGED <<envVars, scanVars, histVars, callVars, procVars>>

\* mutant: the clock is restarted in every iteration of the loop
TimedOut_PerIteration == poll_every >= timeout

\* line 261: `start.elapsed() >= timeout`
TimedOut == elapsed >= timeout

\* lines 251-261: try_wait and the timeout test.  try_wait fails only for a
\* child that is no longer a child of the process ("lost": it has exited and
\* was collected outside the handle)
CaptureTryWait ==
    /\ cpc = "poll"
    /\ \/ /\ child = "lost"
          /\ CaptureReturn(capture_screen_images(cpaths, "wait_error"))
          /\ UNCHANGED child
       \/ /\ child = "exited"
          /\ child' = wait(child)
          /\ CaptureReturn(capture_screen_images(
                 cpaths, IF status = "zero" THEN "ok" ELSE "nonzero"))
       \/ /\ child = "running"
          /\ cpc' = IF TimedOut THEN "kill" ELSE "sleep"
          /\ UNCHANGED <<child, cres>>
    /\ UNCHANGED <<cpaths, status, hangs, elapsed, calls, orphans, killed, waited>>
    /\ UNCHANGED <<envVars, scanVars, histVars, callVars, procVars>>

\* line 270: thread::sleep(poll_every), which may return late
CaptureSleep ==
    /\ cpc = "sleep"
    /\ \E lag \in 1..MaxLag : elapsed' = Min(elapsed + lag * poll_every, ClockCap)
    /\ cpc' = "poll"
    /\ UNCHANGED <<cpaths, child, status, hangs, cres, calls, orphans, killed, waited>>
    /\ UNCHANGED <<envVars, scanVars, histVars, callVars, procVars>>

\* mutant: on a timeout the function bails without touching the child
CaptureKill_BailOnly ==
    /\ cpc = "kill"
    /\ CaptureReturn(capture_screen_images(cpaths, "timeout"))
    /\ UNCHANGED <<cpaths, child, status, hangs, elapsed, calls, orphans, killed, waited>>
    /\ UNCHANGED <<envVars, scanVars, histVars, callVars, procVars>>

\* line 262: `let _ = child.kill()`
CaptureKill ==
    /\ cpc = "kill"
    /\ killed' = TRUE
    /\ child' = kill(child)
    /\ status' = IF child = "running" THEN "signal" ELSE status
    /\ cpc' = "wait"
    /\ UNCHANGED <<cpaths, hangs, elapsed, cres, calls, orphans, waited>>
    /\ UNCHANGED <<envVars, scanVars, histVars, callVars, procVars>>

\* mutant: the killed child is not waited for
CaptureWait_NoReap ==
    /\ cpc = "wait"
    /\ CaptureReturn(capture_screen_images(cpaths, "timeout"))
    /\ UNCHANGED <<cpaths, child, status, hangs, elapsed, calls, orphans, killed, waited>>
    /\ UNCHANGED <<envVars, scanVars, histVars, callVars, procVars>>

\* lines 263-267: `let _ = child.wait()`, which returns once the child has
\* exited, and the timeout error
CaptureWait ==
    /\ cpc = "wait"
    /\ child # "running"
    /\ waited' = TRUE
    /\ child' = wait(child)
    /\ CaptureReturn(capture_screen_images(cpaths, "timeout"))
    /\ UNCHANGED <<cpaths, status, hangs, elapsed, calls, orphans, killed>>
    /\ UNCHANGED <<envVars, scanVars, histVars, callVars, procVars>>

\* environment: the screencapture process exits on its own
ChildExits ==
    /\ cpc \in {"poll", "sleep", "kill"}
    /\ child = "running"
    /\ ~hangs
    /\ child' = "exited"
    /\ status' \in {"zero", "nonzero"}
    /\ UNCHANGED <<cpc, cpaths, hangs, elapsed, cres, calls, orphans, killed, waited>>
    /\ UNCHANGED <<envVars, scanVars, histVars, callVars, procVars>>

\* environment: the exited child is collected outside the handle
ChildLost ==
    /\ cpc \in {"poll", "sleep", "kill"}
    /\ child = "exited"
    /\ child' = "lost"
    /\ UNCHANGED <<cpc, cpaths, status, hangs, elapsed, cres, calls, orphans, killed, waited>>
    /\ UNCHANGED <<envVars, scanVars, histVars, callVars, procVars>>

\* the caller makes its next call (capture_screens_for_attempt lines 320-341,
\* the next attempt of the scan)
CaptureAgain ==
    /\ cpc = "returned"
    /\ calls < MaxCalls
    /\ calls' = calls + 1
    /\ orphans' = orphans + (IF child = "running" THEN 1 ELSE 0)
    /\ cpc' = "start"
    /\ cpaths' \in CapturePathLists
    /\ hangs' \in BOOLEAN
    /\ child' = "none"
    /\ status' = "none"
    /\ elapsed' = 0
    /\ cres' = Pending
    /\ killed' = FALSE
    /\ waited' = FALSE
    /\ UNCHANGED <<envVars, scanVars, histVars, callVars, procVars>>

CaptureStep == CaptureSpawn \/ CaptureTryWait \/ CaptureSleep \/ CaptureKill \/ CaptureWait

CaptureNext ==
    \/ CaptureSpawn \/ CaptureTryWait \/ CaptureSleep \/ CaptureKill \/ CaptureWait
    \/ ChildExits \/ ChildLost \/ CaptureAgain

CaptureSpec == CaptureInit /\ [][CaptureNext]_vars

\* every step of capture_screen_images returns: spawn, try_wait, sleep and
\* kill at once, wait as soon as the child has exited
FairCaptureSpec == CaptureSpec /\ WF_vars(CaptureStep)

-----------------------------------------------------------------------------
(* signal-cli in the container: docker.rs *)

\* str::contains
contains(s, sub) ==
    \E i \in 1..(Len(s) - Len(sub) + 1) : SubSeq(s, i, i + Len(sub) - 1) = sub

RateLimitMarkers ==
    <<"ExternalServiceFailureException", "StatusCode: 502", "StatusCode: 429", "RateLimit">>

\* mutant: only the standard error stream is searched
is_rate_limited_StderrOnly(stdout, stderr) ==
    \E i \in DOMAIN RateLimitMarkers : contains(stderr, RateLimitMarkers[i])

is_rate_limited(stdout, stderr) ==
    LET content == stdout \o "\n" \o stderr
    IN  \E i \in DOMAIN RateLimitMarkers : contains(content, RateLimitMarkers[i])

\* Display of SignalSetupError (errors.rs)
SignalCliRateLimited ==
    "signal-cli rate limited request (StatusCode 429/502). Try again with a fresh captcha and network/IP change if needed."
RegisterFailed == "signal-cli 'register' command failed"
SignalCliCommandFailed(command) == "signal-cli '" \o command \o "' command failed"

\* output is what the docker process left: output.success for status.success()
handle_signal_cli_output(command_name, output, allow_failure) ==
    IF output.success
    THEN Ok(TRUE)
    ELSE IF allow_failure
         THEN Ok(FALSE)
         ELSE IF command_name = "register"
              THEN IF is_rate_limited(output.stdout, output.stderr)
                   THEN Err(SignalCliRateLimited)
                   ELSE Err(RegisterFailed)
              ELSE IF is_rate_limited(output.stdout, output.stderr)
                   THEN Err(SignalCliRateLimited)
                   ELSE Err(SignalCliCommandFailed(command_name))

DataDir == "/data"

\* how starting the container can go: fs::create_dir_all fails, Command::output
\* fails, or the process runs and leaves an output
Launches == {"dir_error", "spawn_error", "ran"}

command_name_of(args) == IF args = <<>> THEN "unknown" ELSE args[1]

run_signal_cli(args, launch, output, allow_failure) ==
    IF launch = "dir_error"
    THEN Err("failed to create data dir " \o DataDir)
    ELSE IF launch = "spawn_error"
         THEN Err("failed to run signal-cli '" \o command_name_of(args) \o "' command")
         ELSE handle_signal_cli_output(command_name_of(args), output, allow_failure)

(* The docker process of each operation: its argument vector and what is
   written to its standard input ("inherit" when the pipe is not ours).
   cfg is the Config; user is the --user mapping of the Linux build, None
   on the other targets. *)

add_linux_user_mapping(user) ==
    IF IsSome(user) THEN <<"--user", user.val>> ELSE <<>>

base_docker_run_cmd(cfg, user) ==
    <<"docker", "run", "--rm", "-i", "--volume", cfg.data_dir \o ":/var/lib/signal-cli",
      "--tmpfs", "/tmp:exec">> \o add_linux_user_mapping(user)

run_signal_cli_command(cfg, user, args) ==
    [argv  |-> base_docker_run_cmd(cfg, user)
                 \o <<cfg.image, "-o", "json", "-a", cfg.account>> \o args,
     stdin |-> "inherit"]

run_signal_cli_with_stdin_secret_command(cfg, user, shell_script, stdin_payload) ==
    [argv  |-> base_docker_run_cmd(cfg, user)
                 \o <<"--env", "SIGNAL_ACCOUNT=" \o cfg.account, "--entrypoint", "sh",
                      cfg.image, "-c", shell_script>>,
     stdin |-> stdin_payload]

\* mutant: the pin follows the code on the command line
verify_code_PinInArguments(cfg, user, code, pin_opt) ==
    run_signal_cli_command(cfg, user,
        <<"verify", code>> \o (IF IsSome(pin_opt) THEN <<"--pin", pin_opt.val>> ELSE <<>>))

verify_code(cfg, user, code, pin_opt) ==
    IF IsSome(pin_opt)
    THEN run_signal_cli_with_stdin_secret_command(cfg, user,
             "read -r SIGNAL_VERIFY_CODE; read -r SIGNAL_PIN; signal-cli -o json -a \"$SIGNAL_ACCOUNT\" verify \"$SIGNAL_VERIFY_CODE\" --pin \"$SIGNAL_PIN\"",
             code \o "\n" \o pin_opt.val \o "\n")
    ELSE run_signal_cli_command(cfg, user, <<"verify", code>>)

\* mutant: the pin is an argument of setPin
set_registration_lock_pin_PinInArguments(cfg, user, pin_value) ==
    run_signal_cli_command(cfg, user, <<"setPin", pin_value>>)

set_registration_lock_pin(cfg, user, pin_value) ==
    run_signal_cli_with_stdin_secret_command(cfg, user,
        "read -r SIGNAL_PIN; signal-cli -o json -a \"$SIGNAL_ACCOUNT\" setPin \"$SIGNAL_PIN\"",
        pin_value \o "\n")

\* outputs of a signal-cli run, for the procedures below
CliOutputs ==
    {[success |-> TRUE,  stdout |-> "{}", stderr |-> ""],
     [success |-> FALSE, stdout |-> "",   stderr |-> "Failed to link"],
     [success |-> FALSE, stdout |-> "",   stderr |-> "StatusCode: 429"]}

\* the entry of `io` for one run_signal_cli call
CliRun(args, launch, output, r) ==
    [op |-> "signal-cli", args |-> args,
     outcome |-> IF launch # "ran" THEN launch
                 ELSE IF output.success THEN "exit 0" ELSE "exit 1"]

-----------------------------------------------------------------------------
(* Single calls of the functions of qr.rs: the input is drawn in the       *)
(* initial state, one action applies the function.                         *)

\* lines 285-288: the lines of the system_profiler output that are counted
RECURSIVE resolution_lines(_)
resolution_lines(stdout) ==
    IF stdout = <<>>
    THEN 0
    ELSE (IF starts_with(trim_start(Head(stdout)), "Resolution:") THEN 1 ELSE 0)
           + resolution_lines(Tail(stdout))

\* lines 275-298: Monitor::all is reached only past the early return
detect_display_count_enumerates(sys) == sys.profiler # "ok"

\* a system_profiler output with k resolution lines among other lines
ResolutionLine(style) ==
    IF style = "flush" THEN "Resolution: 2560 x 1440"
    ELSE IF style = "tab" THEN "\tResolution: 1920 x 1080"
    ELSE "          Resolution: 1920 x 1080 (1080p FHD)"

ProfilerOutput(k, style) ==
    <<"Graphics/Displays:">>
      \o [i \in 1..k |-> ResolutionLine(style)]
      \o <<"          UI Looks like: 1920 x 1080", "          Main Display: Resolution: Yes", "">>

\* what the system reports: the system_profiler command is missing, fails or
\* prints an output; Monitor::all fails (-1) or enumerates `monitors` monitors
SysReports ==
    [profiler : {"missing", "failed", "ok"},
     shown    : 0..MaxReported,
     style    : {"flush", "tab", "spaces"},
     monitors : -1..MaxReported]

SysOf(report) ==
    [profiler |-> report.profiler,
     lines    |-> resolution_lines(ProfilerOutput(report.shown, report.style)),
     monitors |-> report.monitors]

\* texts a QR code may encode
BarcodeTexts == RawTexts \cup {Payload \o "\n", SignalPrefix \o " "}

\* an image holding at most one QR code of text `text`: the libraries read it
\* in pass `from` only or from pass `from` onward (0: in no pass) and nothing
\* else, or (junk) for Backend B a grid that fails to decode before it
Barcodes(passes) ==
    [text : BarcodeTexts, from : 0..passes, seen : {"only", "onward"}, junk : BOOLEAN]

Sees(code, i) ==
    /\ code.from # 0
    /\ IF code.seen = "only" THEN i = code.from ELSE i >= code.from

ReadOf(pass, code, i) ==
    IF pass.backend = "rxing"
    THEN IF Sees(code, i) THEN Ok(code.text) ELSE Err("")
    ELSE (IF code.junk THEN <<Err("")>> ELSE <<>>)
           \o (IF Sees(code, i) THEN <<Ok(code.text)>> ELSE <<>>)

BarcodeReads(passes, code) == [i \in 1..Len(passes) |-> ReadOf(passes[i], code, i)]

ImagePath == "qr.png"

PassesOf(file) == DecodePasses(BaseImage(file.w, file.h))

FromImageInputs ==
    UNION {[file : {file}, code : Barcodes(Len(PassesOf(file)))] :
             file \in ImageFiles \cup {MissingFile}}

RxingInputs == [file : ImageFiles \cup {MissingFile}, code : Barcodes(1)]

RqrrInputs == [file : ImageFiles, code : Barcodes(1)]

MultipassInputs ==
    [file : ImageFiles,
     code : Barcodes(Len(decode_signal_qr_with_rqrr_multipass(BaseImage(1, 1))))]

\* images without a pixel (0 x 0) and images of 1..MaxSide pixels a side
ResizeInputs ==
    [w : 1..MaxSide, h : 1..MaxSide, max_dimension : 0..MaxSide]
      \cup [w : {0}, h : {0}, max_dimension : 0..MaxSide]

\* scale factors: the literals of qr.rs, the two numbers NearOne accepts,
\* powers of two, zero and a negative factor
Scales ==
    {f32_lit(100, 100), [neg |-> FALSE, m |-> Pow2(24) - 1, e |-> -24],
     f32_lit(85, 100), f32_lit(120, 100), f32_lit(115, 100),
     f32_lit(1, 2), f32_lit(1, 4), f32_lit(2, 1), f32_lit(3, 1), f32_lit(1, 3),
     F32Zero, f32_neg(f32_lit(1, 2))}

\* images of 1..MaxSide pixels a side
ScaleInputs == [w : 1..MaxSide, h : 1..MaxSide, scale : Scales]

\* thresholds: those of qr.rs and of the tests, and the ends of u8
Thresholds == {0, 1, 110, 128, 140, 150, 160, 170, 254, 255}

Coordinates(w, h) == (1..w) \X (1..h)

\* every one-pixel image, and larger images of a few samples
PixelImages ==
    {PixelImage(1, 1, [p \in Coordinates(1, 1) |-> v]) : v \in 0..255}
      \cup {PixelImage(2, 1, [p \in Coordinates(2, 1) |-> IF p[1] = 1 THEN a ELSE b]) :
               a \in {0, 100, 255}, b \in {150, 200}}
      \cup {PixelImage(MaxPixelSide, 2,
                       [p \in Coordinates(MaxPixelSide, 2) |-> ((p[1] + p[2]) * step) % 256]) :
               step \in {10, 37, 85}}
      \cup {PixelImage(0, 0, [p \in Coordinates(0, 0) |-> 0])}

ThresholdInputs == [image : PixelImages, threshold : Thresholds, invert : BOOLEAN]

\* what the container wrote: nothing, JSON, an ordinary failure, each
\* rate-limit marker inside a longer text, and two near misses
CliTexts ==
    {"", "{}", "Failed to link",
     "org.asamk.ExternalServiceFailureException: x", "error StatusCode: 502 (bad)",
     "StatusCode: 429", "[RateLimit]", "StatusCode: 500", "Ratelimit"}

CliCallInputs ==
    [args : {<<>>, <<"register", "--voice">>, <<"listDevices">>, <<"addDevice", "--uri", "u">>},
     output : [success : BOOLEAN, stdout : CliTexts, stderr : CliTexts],
     allow_failure : BOOLEAN]

Configs ==
    [account : {"+15550001111", "+33612345678"}, data_dir : {"/home/u/.signal"},
     image : {"registry.gitlab.com/packaging/signal-cli/signal-cli-native:latest"}]

UserMappings == {None, Some("1000:1000")}
VerificationCodes == {"123-456", "654321"}
Pins == {"0000", "97531"}

VerifyInputs ==
    [cfg : Configs, user : UserMappings, code : VerificationCodes,
     pin : {None} \cup {Some(p) : p \in Pins}]

SetPinInputs == [cfg : Configs, user : UserMappings, pin : Pins]

\* what grid.decode() gives for one detected grid, and the grids of an image
\* in detection order
GridResults ==
    {Err(""), Ok("https://signal.org/"), Ok(Payload), Ok(OtherPayload), Ok(" " \o Payload)}

GridLists ==
    {<<>>} \cup {<<a>> : a \in GridResults}
           \cup {<<a, b>> : a \in GridResults, b \in GridResults}
           \cup {<<a, b, c>> : a \in GridResults, b \in GridResults, c \in GridResults}

\* capture_screens_for_attempt with any display count, on either target, with
\* every outcome of the two tool invocations and of the library capture
CaptureForAttemptInputs ==
    [attempt : {1}, display_count : 0..(MaxDisplays + 1), macos : BOOLEAN,
     first : ToolOutcomes, second : ToolOutcomes, xcap : XcapRuns]

CallInit ==
    /\ ScanOff
    /\ CaptureOff
    /\ ProcOff
    /\ ret = Pending
    /\ \/ fn = "detect_display_count" /\ arg \in SysReports
       \/ fn = "decode_signal_qr_from_image" /\ arg \in FromImageInputs
       \/ fn = "decode_signal_qr_with_rxing" /\ arg \in RxingInputs
       \/ fn = "decode_signal_qr_with_rqrr" /\ arg \in RqrrInputs
       \/ fn = "decode_signal_qr_with_rqrr_multipass" /\ arg \in MultipassInputs
       \/ fn = "resize_luma_to_max_dimension" /\ arg \in ResizeInputs
       \/ fn = "scale_luma_image" /\ arg \in ScaleInputs
       \/ fn = "threshold_luma_image" /\ arg \in ThresholdInputs
       \/ fn = "run_signal_cli" /\ arg \in CliCallInputs
       \/ fn = "capture_screens_for_attempt" /\ arg \in CaptureForAttemptInputs
       \/ fn = "decode_signal_qr_with_rqrr on grids" /\ arg \in [grids : GridLists]
       \/ fn = "verify_code" /\ arg \in VerifyInputs
       \/ fn = "set_registration_lock_pin" /\ arg \in SetPinInputs

Called(name) == fn = name /\ ret = Pending

CallDetectDisplayCount ==
    /\ Called("detect_display_count")
    /\ ret' = [count    |-> detect_display_count(SysOf(arg)),
               library  |-> detect_display_count_enumerates(SysOf(arg))]
    /\ UNCHANGED <<fn, arg, envVars, scanVars, histVars, captureVars, procVars>>

CallDecodeFromImage ==
    /\ Called("decode_signal_qr_from_image")
    /\ ret' = decode_signal_qr_from_image(ImagePath, arg.file,
                                          BarcodeReads(PassesOf(arg.file), arg.code))
    /\ UNCHANGED <<fn, arg, envVars, scanVars, histVars, captureVars, procVars>>

CallRxing ==
    /\ Called("decode_signal_qr_with_rxing")
    /\ LET pass == PassA(BaseImage(arg.file.w, arg.file.h))
       IN  ret' = decode_signal_qr_with_rxing(ImagePath, arg.file, ReadOf(pass, arg.code, 1))
    /\ UNCHANGED <<fn, arg, envVars, scanVars, histVars, captureVars, procVars>>

CallRqrr ==
    /\ Called("decode_signal_qr_with_rqrr")
    /\ LET pass == PassB(BaseImage(arg.file.w, arg.file.h))
       IN  ret' = decode_signal_qr_with_rqrr(ReadOf(pass, arg.code, 1))
    /\ UNCHANGED <<fn, arg, envVars, scanVars, histVars, captureVars, procVars>>

CallRqrrMultipass ==
    /\ Called("decode_signal_qr_with_rqrr_multipass")
    /\ LET passes == decode_signal_qr_with_rqrr_multipass(BaseImage(arg.file.w, arg.file.h))
       IN  ret' = FirstMatch(passes, BarcodeReads(passes, arg.code), 1)
    /\ UNCHANGED <<fn, arg, envVars, scanVars, histVars, captureVars, procVars>>

CallResize ==
    /\ Called("resize_luma_to_max_dimension")
    /\ ret' = resize_luma_to_max_dimension(BaseImage(arg.w, arg.h), arg.max_dimension)
    /\ UNCHANGED <<fn, arg, envVars, scanVars, histVars, captureVars, procVars>>

CallScale ==
    /\ Called("scale_luma_image")
    /\ ret' = scale_luma_image(BaseImage(arg.w, arg.h), arg.scale)
    /\ UNCHANGED <<fn, arg, envVars, scanVars, histVars, captureVars, procVars>>

\* threshold_luma_image, and once more on its own output with the same
\* threshold and polarity; ret.out holds the outputs in order
CallThreshold ==
    /\ Called("threshold_luma_image")
    /\ ret' = [out |-> <<threshold_luma_image_pixels(arg.image, arg.threshold, arg.invert)>>]
    /\ UNCHANGED <<fn, arg, envVars, scanVars, histVars, captureVars, procVars>>

CallThresholdAgain ==
    /\ fn = "threshold_luma_image"
    /\ ret # Pending
    /\ Len(ret.out) = 1
    /\ ret' = [out |-> Append(ret.out,
                   threshold_luma_image_pixels(ret.out[1], arg.threshold, arg.invert))]
    /\ UNCHANGED <<fn, arg, envVars, scanVars, histVars, captureVars, procVars>>

\* run_signal_cli whose docker process ran to its end
CallRunSignalCli ==
    /\ Called("run_signal_cli")
    /\ ret' = run_signal_cli(arg.args, "ran", arg.output, arg.allow_failure)
    /\ UNCHANGED <<fn, arg, envVars, scanVars, histVars, captureVars, procVars>>

\* the docker process verify_code starts
CallVerifyCode ==
    /\ Called("verify_code")
    /\ ret' = verify_code(arg.cfg, arg.user, arg.code, arg.pin)
    /\ UNCHANGED <<fn, arg, envVars, scanVars, histVars, captureVars, procVars>>

\* the docker process set_registration_lock_pin starts
CallSetPin ==
    /\ Called("set_registration_lock_pin")
    /\ ret' = set_registration_lock_pin(arg.cfg, arg.user, arg.pin)
    /\ UNCHANGED <<fn, arg, envVars, scanVars, histVars, captureVars, procVars>>

\* decode_signal_qr_with_rqrr on an image with several grids
CallRqrrGrids ==
    /\ Called("decode_signal_qr_with_rqrr on grids")
    /\ ret' = decode_signal_qr_with_rqrr(arg.grids)
    /\ UNCHANGED <<fn, arg, envVars, scanVars, histVars, captureVars, procVars>>

CallCaptureForAttempt ==
    /\ Called("capture_screens_for_attempt")
    /\ ret' = capture_screens_for_attempt(arg.attempt, arg.display_count, arg.macos,
                  [first |-> arg.first, second |-> arg.second, xcap |-> arg.xcap,
                   made |-> arg.display_count])
    /\ UNCHANGED <<fn, arg, envVars, scanVars, histVars, captureVars, procVars>>

CallNext ==
    \/ CallDetectDisplayCount
    \/ CallDecodeFromImage
    \/ CallRxing
    \/ CallRqrr
    \/ CallRqrrMultipass
    \/ CallResize
    \/ CallScale
    \/ CallThreshold
    \/ CallThresholdAgain
    \/ CallRunSignalCli
    \/ CallCaptureForAttempt
    \/ CallRqrrGrids
    \/ CallVerifyCode
    \/ CallSetPin

CallSpec == CallInit /\ [][CallNext]_vars

-----------------------------------------------------------------------------
(* Procedures of lib.rs and docker.rs, one action per step *)

ProcReturn(r) ==
    /\ pret' = r
    /\ ppc' = "returned"

Did(op, args, outcome) == [op |-> op, args |-> args, outcome |-> outcome]

(* link_desktop_live *)

\* mutant: the arguments are refused only when both are zero
InvalidScanArguments_Both(i, n) == i = 0 /\ n = 0

\* line 326
InvalidScanArguments(i, n) == i = 0 \/ n = 0

LiveInputs == [interval : Intervals, attempts : 0..MaxAttempts, macos : BOOLEAN]

\* what scan_screen_for_signal_uri can return to link_desktop_live
ScanReturns(n) ==
    {Ok(Payload), Err(ExhaustedMessage(n)),
     Err("screencapture failed (check Screen Recording permissions)")}

\* lines 326-328
LiveValidate ==
    /\ proc = "link_desktop_live" /\ ppc = "start"
    /\ IF InvalidScanArguments(pin.interval, pin.attempts)
       THEN ProcReturn(Err("interval and attempts must be > 0"))
       ELSE ppc' = "check_tool" /\ UNCHANGED pret
    /\ UNCHANGED <<proc, pin, locals, io, envVars, scanVars, histVars, captureVars, callVars>>

\* lines 330-335
LiveCheckTool ==
    /\ proc = "link_desktop_live" /\ ppc = "check_tool"
    /\ \E exists \in BOOLEAN :
         /\ io' = Append(io, Did("command_exists", <<"screencapture">>,
                                 IF exists THEN "found" ELSE "missing"))
         /\ IF ~exists /\ pin.macos
            THEN ProcReturn(Err("screencapture is required (macOS)"))
            ELSE ppc' = "open_signal" /\ UNCHANGED pret
    /\ UNCHANGED <<proc, pin, locals, envVars, scanVars, histVars, captureVars, callVars>>

\* lines 337-342
LiveOpenSignal ==
    /\ proc = "link_desktop_live" /\ ppc = "open_signal"
    /\ \E launched \in BOOLEAN :
         io' = Append(io, Did("open_signal_desktop", <<>>,
                              IF launched THEN "requested" ELSE "failed"))
    /\ ppc' = "scan"
    /\ UNCHANGED <<proc, pin, locals, pret, envVars, scanVars, histVars, captureVars, callVars>>

\* lines 344-351
LiveScan ==
    /\ proc = "link_desktop_live" /\ ppc = "scan"
    /\ \E r \in ScanReturns(pin.attempts) :
         /\ io' = Append(io, Did("scan_screen_for_signal_uri", <<>>, r.tag))
         /\ IF IsErr(r)
            THEN ProcReturn(r) /\ UNCHANGED locals
            ELSE ppc' = "from_uri" /\ locals' = [uri |-> r.val, pass |-> 0] /\ UNCHANGED pret
    /\ UNCHANGED <<proc, pin, envVars, scanVars, histVars, captureVars, callVars>>

(* link_desktop_from_uri and run_post_link_sync *)

\* URIs link_desktop_from_uri is called with: from the scan, from a decoded
\* screenshot or typed in
PastedUris ==
    {Payload, SignalPrefix, " " \o Payload, "https://signal.org/", "SGNL://linkdevice?uuid=live", ""}

FromUriInputs == [uri : PastedUris]

InFromUri == proc \in {"link_desktop_live", "link_desktop_from_uri"}

uri == IF proc = "link_desktop_live" THEN locals.uri ELSE pin.uri

receive_args ==
    <<"receive", "--timeout", ToString(POST_LINK_RECEIVE_TIMEOUT_SECS),
      "--max-messages", ToString(POST_LINK_RECEIVE_MAX_MESSAGES)>>

\* mutant: a failed addDevice is only reported
AddDeviceFailed_Ignored(r) == FALSE

\* line 452: the `?` on run_signal_cli
AddDeviceFailed(r) == IsErr(r)

\* lines 442-444
UriValidate ==
    /\ InFromUri /\ ppc = "from_uri"
    /\ IF ~starts_with(uri, SignalPrefix)
       THEN ProcReturn(Err("invalid URI: expected sgnl://linkdevice..."))
       ELSE ppc' = "add_device" /\ UNCHANGED pret
    /\ UNCHANGED <<proc, pin, locals, io, envVars, scanVars, histVars, captureVars, callVars>>

\* lines 446-452
UriAddDevice ==
    /\ InFromUri /\ ppc = "add_device"
    /\ \E launch \in Launches, output \in CliOutputs :
         LET args == <<"addDevice", "--uri", uri>>
             r    == run_signal_cli(args, launch, output, FALSE)
         IN  /\ io' = Append(io, CliRun(args, launch, output, r))
             /\ IF AddDeviceFailed(r)
                THEN ProcReturn(r) /\ UNCHANGED locals
                ELSE /\ ppc' = "receive"
                     /\ locals' = [uri |-> uri, pass |-> 1]
                     /\ UNCHANGED pret
    /\ UNCHANGED <<proc, pin, envVars, scanVars, histVars, captureVars, callVars>>

\* mutant: the passes go on after one that failed
ReceiveAgain_AfterFailure(r, pass) == pass < POST_LINK_SYNC_PASSES

\* lines 476-495: `Ok(true) => {}` inside `for pass in 1..=POST_LINK_SYNC_PASSES`
ReceiveAgain(r, pass) == r = Ok(TRUE) /\ pass < POST_LINK_SYNC_PASSES

\* lines 476-495: one pass of the receive loop
SyncReceive ==
    /\ InFromUri /\ ppc = "receive"
    /\ \E launch \in Launches, output \in CliOutputs :
         LET r == run_signal_cli(receive_args, launch, output, TRUE)
         IN  /\ io' = Append(io, CliRun(receive_args, launch, output, r))
             /\ IF ReceiveAgain(r, locals.pass)
                THEN locals' = [locals EXCEPT !.pass = @ + 1] /\ UNCHANGED ppc
                ELSE ppc' = "send_contacts" /\ UNCHANGED locals
    /\ UNCHANGED <<proc, pin, pret, envVars, scanVars, histVars, captureVars, callVars>>

\* lines 497-509
SyncSendContacts ==
    /\ InFromUri /\ ppc = "send_contacts"
    /\ \E launch \in Launches, output \in CliOutputs :
         LET r == run_signal_cli(<<"sendContacts">>, launch, output, TRUE)
         IN  io' = Append(io, CliRun(<<"sendContacts">>, launch, output, r))
    /\ ppc' = "list_devices"
    /\ UNCHANGED <<proc, pin, locals, pret, envVars, scanVars, histVars, captureVars, callVars>>

\* lines 456-458 and list_devices (docker.rs lines 236-240)
UriListDevices ==
    /\ InFromUri /\ ppc = "list_devices"
    /\ \E launch \in Launches, output \in CliOutputs :
         LET r == run_signal_cli(<<"listDevices">>, launch, output, FALSE)
         IN  /\ io' = Append(io, CliRun(<<"listDevices">>, launch, output, r))
             /\ ProcReturn(IF IsErr(r) THEN r ELSE Ok("()"))
    /\ UNCHANGED <<proc, pin, locals, envVars, scanVars, histVars, captureVars, callVars>>

(* run_signal_cli_with_retries (docker.rs) *)

registration_failure_hint ==
    "If this persists: the number/operator may be blocked, or your current IP may be rate-limited. Try another network/IP (for example mobile hotspot) or another number/operator."

RetryInputs ==
    [args : {<<"register", "--captcha", "signalcaptcha://ok">>},
     attempts : 0..MaxRetries, delay_secs : {0, 8}, label : {"registration"}]

\* mutant: one attempt more than asked for
RetryAgain_Inclusive(attempt_no, n) == attempt_no <= n

\* line 197, and the end of the range 1..=attempts
RetryAgain(attempt_no, n) == attempt_no < n

InRetries == proc = "run_signal_cli_with_retries"

\* lines 187-189
RetryValidate ==
    /\ InRetries /\ ppc = "start"
    /\ IF pin.attempts = 0
       THEN ProcReturn(Err(pin.label \o " attempts must be > 0")) /\ UNCHANGED locals
       ELSE ppc' = "run" /\ locals' = [attempt |-> 1] /\ UNCHANGED pret
    /\ UNCHANGED <<proc, pin, io, envVars, scanVars, histVars, captureVars, callVars>>

\* lines 191-197 and 203-206: one attempt
RetryRun ==
    /\ InRetries /\ ppc = "run"
    /\ \E launch \in Launches, output \in CliOutputs :
         LET r == run_signal_cli(pin.args, launch, output, TRUE)
         IN  /\ io' = Append(io, CliRun(pin.args, launch, output, r))
             /\ IF IsErr(r) THEN ProcReturn(r)
                ELSE IF r = Ok(TRUE) THEN ProcReturn(Ok("()"))
                ELSE IF RetryAgain(locals.attempt, pin.attempts)
                     THEN ppc' = "sleep" /\ UNCHANGED pret
                     ELSE ProcReturn(Err(pin.label \o " failed after "
                                           \o ToString(pin.attempts) \o " attempts. "
                                           \o registration_failure_hint))
    /\ UNCHANGED <<proc, pin, locals, envVars, scanVars, histVars, captureVars, callVars>>

\* lines 198-199
RetrySleep ==
    /\ InRetries /\ ppc = "sleep"
    /\ io' = Append(io, Did("sleep", <<ToString(pin.delay_secs)>>, ""))
    /\ locals' = [attempt |-> locals.attempt + 1]
    /\ ppc' = "run"
    /\ UNCHANGED <<proc, pin, pret, envVars, scanVars, histVars, captureVars, callVars>>

(* ensure_docker_ready (docker.rs).  Times are in milliseconds; the clock
   advances while `docker info` runs and while the thread sleeps. *)

\* Display of SignalSetupError (errors.rs)
DockerNotInstalled == "Docker is not installed. Install Docker Desktop/Engine and retry."
DockerStartFailed ==
    "Docker is installed but could not be started automatically. Start Docker manually and retry."
DockerStartTimeout(seconds) ==
    "Docker start timed out after " \o ToString(seconds) \o " seconds. Open Docker Desktop and retry."

\* what one `docker info` can come to: the process cannot be launched, or
\* it exits with success or without
DockerInfoOutcomes == {"spawn_error", "ready", "not_ready"}

\* how long one `docker info` takes
DockerInfoDurations == {0, 5000}

\* docker_daemon_is_ready, lines 63-71
docker_daemon_is_ready(outcome) ==
    IF outcome = "spawn_error" THEN Err("failed to run docker info")
    ELSE Ok(outcome = "ready")

\* mutant: the daemon is polled whatever the start attempt gave
StartFailed_Polls(started) == FALSE

\* line 24
StartFailed(started) == ~started

InDocker == proc = "ensure_docker_ready"

\* lines 15-17
DockerCheckInstalled ==
    /\ InDocker /\ ppc = "start"
    /\ \E exists \in BOOLEAN :
         /\ io' = Append(io, Did("command_exists", <<"docker">>,
                                 IF exists THEN "found" ELSE "missing"))
         /\ IF ~exists
            THEN ProcReturn(Err(DockerNotInstalled))
            ELSE ppc' = "first_info" /\ UNCHANGED pret
    /\ UNCHANGED <<proc, pin, locals, envVars, scanVars, histVars, captureVars, callVars>>

\* lines 19-21
DockerFirstInfo ==
    /\ InDocker /\ ppc = "first_info"
    /\ \E outcome \in DockerInfoOutcomes :
         LET r == docker_daemon_is_ready(outcome)
         IN  /\ io' = Append(io, Did("docker", <<"info">>, outcome))
             /\ IF IsErr(r) THEN ProcReturn(r)
                ELSE IF r.val THEN ProcReturn(Ok("()"))
                ELSE ppc' = "try_start" /\ UNCHANGED pret
    /\ UNCHANGED <<proc, pin, locals, envVars, scanVars, histVars, captureVars, callVars>>

\* lines 23-39
DockerTryStart ==
    /\ InDocker /\ ppc = "try_start"
    /\ \E started \in BOOLEAN :
         /\ io' = Append(io, Did("try_start_docker", <<>>,
                                 IF started THEN "started" ELSE "failed"))
         /\ IF StartFailed(started)
            THEN ProcReturn(Err(DockerStartFailed)) /\ UNCHANGED locals
            ELSE /\ ppc' = "loop"
                 /\ locals' = [elapsed |-> 0, sleep_ms |-> 150]
                 /\ UNCHANGED pret
    /\ UNCHANGED <<proc, pin, envVars, scanVars, histVars, captureVars, callVars>>

\* line 41 and lines 56-60
DockerLoopTest ==
    /\ InDocker /\ ppc = "loop"
    /\ IF locals.elapsed < DOCKER_START_TIMEOUT_SECS * 1000
       THEN ppc' = "poll" /\ UNCHANGED pret
       ELSE ProcReturn(Err(DockerStartTimeout(DOCKER_START_TIMEOUT_SECS)))
    /\ UNCHANGED <<proc, pin, locals, io, envVars, scanVars, histVars, captureVars, callVars>>

\* lines 42-45
DockerPoll ==
    /\ InDocker /\ ppc = "poll"
    /\ \E outcome \in DockerInfoOutcomes, d \in DockerInfoDurations :
         LET r == docker_daemon_is_ready(outcome)
         IN  /\ io' = Append(io, Did("docker", <<"info">>, outcome))
             /\ locals' = [locals EXCEPT !.elapsed = @ + d]
             /\ IF IsErr(r) THEN ProcReturn(r)
                ELSE IF r.val THEN ProcReturn(Ok("()"))
                ELSE ppc' = "sleep" /\ UNCHANGED pret
    /\ UNCHANGED <<proc, pin, envVars, scanVars, histVars, captureVars, callVars>>

\* lines 52-53
DockerSleep ==
    /\ InDocker /\ ppc = "sleep"
    /\ io' = Append(io, Did("sleep", <<ToString(locals.sleep_ms)>>, ""))
    /\ locals' = [elapsed  |-> locals.elapsed + locals.sleep_ms,
                  sleep_ms |-> IF locals.sleep_ms * 2 < 1000 THEN locals.sleep_ms * 2 ELSE 1000]
    /\ ppc' = "loop"
    /\ UNCHANGED <<proc, pin, pret, envVars, scanVars, histVars, captureVars, callVars>>

(* decode_signal_qr_from_image (qr.rs, cfg(not(test))), one action per
   decoding pass *)

\* a capture whose 0.85 candidate has the dimensions of its fast variant
CoincidingFile == [loadable |-> TRUE, w |-> 1882, h |-> 1000]

\* the file to decode and the code in it (see Barcodes)
DecodeStepInputs ==
    UNION {[file : {file},
            code : [text : {Payload, "https://signal.org/"},
                    from : 0..Len(PassesOf(file)),
                    seen : {"only", "onward"}, junk : {FALSE}]] :
             file \in ImageFiles \cup {MissingFile, CoincidingFile}}

\* mutant: a match does not end the decode
DecodeMatched_Never(found) == FALSE

\* the `if let Some(uri) = ... { return Ok(Some(uri)); }` of every pass
DecodeMatched(found) == IsSome(found)

InDecode == proc = "decode_signal_qr_from_image"

\* lines 59-61
DecodeOpen ==
    /\ InDecode /\ ppc = "start"
    /\ io' = Append(io, Did("image::open", <<ImagePath>>,
                            IF pin.file.loadable THEN "ok" ELSE "error"))
    /\ IF ~pin.file.loadable
       THEN ProcReturn(Err("failed to open image " \o ImagePath)) /\ UNCHANGED locals
       ELSE ppc' = "pass" /\ locals' = [next |-> 1] /\ UNCHANGED pret
    /\ UNCHANGED <<proc, pin, envVars, scanVars, histVars, captureVars, callVars>>

\* lines 63-90: the next pass, or Ok(None) when none is left
DecodePass ==
    /\ InDecode /\ ppc = "pass"
    /\ LET passes == PassesOf(pin.file)
           i      == locals.next
       IN  IF i > Len(passes)
           THEN ProcReturn(None) /\ UNCHANGED <<io, locals>>
           ELSE LET found == RunPass(passes[i], ReadOf(passes[i], pin.code, i))
                IN  /\ io' = Append(io, [op |-> passes[i].backend, args |-> <<>>,
                                         outcome |-> found, image |-> passes[i].image])
                    /\ IF DecodeMatched(found)
                       THEN ProcReturn(found) /\ UNCHANGED locals
                       ELSE locals' = [next |-> i + 1] /\ UNCHANGED <<ppc, pret>>
    /\ UNCHANGED <<proc, pin, envVars, scanVars, histVars, captureVars, callVars>>

ProcInit ==
    /\ ScanOff
    /\ CaptureOff
    /\ CallOff
    /\ locals = <<>>
    /\ io = <<>>
    /\ pret = Pending
    /\ \/ proc = "link_desktop_live" /\ pin \in LiveInputs /\ ppc = "start"
       \/ proc = "link_desktop_from_uri" /\ pin \in FromUriInputs /\ ppc = "from_uri"
       \/ proc = "run_signal_cli_with_retries" /\ pin \in RetryInputs /\ ppc = "start"

ProcNext ==
    \/ LiveValidate
    \/ LiveCheckTool
    \/ LiveOpenSignal
    \/ LiveScan
    \/ UriValidate
    \/ UriAddDevice
    \/ SyncReceive
    \/ SyncSendContacts
    \/ UriListDevices
    \/ RetryValidate
    \/ RetryRun
    \/ RetrySleep

ProcSpec == ProcInit /\ [][ProcNext]_vars

FairProcSpec == ProcSpec /\ WF_vars(ProcNext)

\* ensure_docker_ready on its own
DockerInit ==
    /\ ScanOff
    /\ CaptureOff
    /\ CallOff
    /\ proc = "ensure_docker_ready"
    /\ ppc = "start"
    /\ pin = <<>>
    /\ locals = <<>>
    /\ io = <<>>
    /\ pret = Pending

DockerNext ==
    \/ DockerCheckInstalled
    \/ DockerFirstInfo
    \/ DockerTryStart
    \/ DockerLoopTest
    \/ DockerPoll
    \/ DockerSleep

DockerSpec == DockerInit /\ [][DockerNext]_vars

\* every command the procedure runs comes back, and the thread wakes up
FairDockerSpec == DockerSpec /\ WF_vars(DockerNext)

\* decode_signal_qr_from_image pass by pass
DecodeStepInit ==
    /\ ScanOff
    /\ CaptureOff
    /\ CallOff
    /\ proc = "decode_signal_qr_from_image"
    /\ ppc = "start"
    /\ pin \in DecodeStepInputs
    /\ locals = <<>>
    /\ io = <<>>
    /\ pret = Pending

DecodeStepNext ==
    \/ DecodeOpen
    \/ DecodePass

DecodeStepSpec == DecodeStepInit /\ [][DecodeStepNext]_vars

-----------------------------------------------------------------------------
(* Properties *)

TempDirMessage == "failed to create temporary directory"

\* the errors capture_screen_images returns for a non-empty path list
CaptureMessages ==
    {capture_screen_images(<<"p">>, o).val : o \in ToolFailures}

\* the file names capture_screens_for_attempt can return for an attempt
PathsOfAttempt(k) ==
    {SinglePath(k)} \cup {ScreenPath(k, i) : i \in 1..MAX_DETECTED_DISPLAYS}

Last(seq) == seq[Len(seq)]

\* C1: every payload returned by decode_signal_qr_from_image, and so every
\* payload returned by scan_screen_for_signal_uri, begins with
\* "sgnl://linkdevice", whatever texts the two backends read.
C1_PayloadHasPrefix ==
    /\ IsSome(decoded) => starts_with(decoded.val, SignalPrefix)
    /\ IsOk(result) => starts_with(result.val, SignalPrefix)

\* C1 witness: the scan returned a payload that Backend A read with
\* surrounding whitespace or that either backend read verbatim.
C1_Witness ==
    /\ pc = "done"
    /\ IsOk(result)
    /\ result.val = OtherPayload
    /\ decoded = Some(OtherPayload)

\* C2 as claimed: with interval = 0 or attempts = 0 the scan fails at once,
\* without a capture and without querying the display.
C2_Original ==
    (interval = 0 \/ attempts = 0) =>
        /\ ~displayQueried
        /\ captured = <<>>
        /\ toolCalls = 0
        /\ pc = "done" => IsErr(result)

\* C2 amended: with attempts = 0 the scan makes no capture and opens no
\* image, and it ends with an error, which is the exhaustion error "after 0
\* attempts" (returned after the display count was queried) or the
\* temporary-directory error; interval = 0 alone is not rejected.
C2_ZeroAttempts ==
    attempts = 0 =>
        /\ captured = <<>>
        /\ toolCalls = 0
        /\ opened = <<>>
        /\ pc = "done" =>
             \/ result = Err(TempDirMessage) /\ ~displayQueried
             \/ result = Err(ExhaustedMessage(0)) /\ displayQueried

\* C2 witness: a scan with attempts = 0 ended with the exhaustion error
\* after it queried the display count.
C2_Witness ==
    /\ attempts = 0
    /\ pc = "done"
    /\ displayQueried
    /\ result = Err(ExhaustedMessage(0))

\* C3: the step in which a decode returns a payload is the step in which the
\* scan returns exactly that payload, with no capture and no sleep; and
\* nothing happens after the scan has returned, so the remaining screenshots
\* of the attempt are never decoded.
C3_ShortCircuit ==
    [][/\ pc # "done"
       /\ (opened' # opened /\ IsSome(decoded')) =>
             /\ pc' = "done"
             /\ result' = Ok(decoded'.val)
             /\ captured' = captured
             /\ slept' = slept
             /\ progress' = progress]_vars

\* C3 witness: a payload was found in the first of several screenshots while
\* attempts remained.
C3_Witness ==
    /\ pc = "done"
    /\ IsOk(result)
    /\ Len(queue) >= 2
    /\ Last(opened) = Head(queue)
    /\ attempt < attempts

AllFailed(t) == t # <<>> /\ \A i \in DOMAIN t : ~t[i].ok

OpenMessagePrefix == "failed to open image "

\* C4: capture_screens_for_attempt is invoked at most `attempts` times, with
\* the attempt numbers 1, 2, 3, ... in order, each once and none above
\* `attempts`; and when every call returns, the scan terminates.
C4_BoundedAttempts ==
    /\ [](/\ Len(captured) <= attempts
          /\ \A i \in DOMAIN captured : captured[i] = i)
    /\ <>(pc = "done")

\* C4 witness: a scan that used its whole budget of two or more attempts and
\* returned.
C4_Witness ==
    /\ pc = "done"
    /\ attempts >= 2
    /\ captured = SeqTo(attempts)

\* C5: a scan in which every capture succeeded and every decode returned "no
\* match" ends, after exactly `attempts` completed attempts, with the error
\* "no valid Signal Desktop QR found after N attempts"; that error is
\* returned only then, and it is none of the capture, decode or
\* temporary-directory errors.
C5_Exhaustion ==
    /\ (/\ pc = "done"
        /\ displayQueried
        /\ ~IsOk(result)
        /\ ~AllFailed(tried)
        /\ ~IsErr(decoded)) =>
           /\ result = Err(ExhaustedMessage(attempts))
           /\ progress = attempts
           /\ captured = SeqTo(attempts)
    /\ result = Err(ExhaustedMessage(attempts)) =>
           /\ pc = "done"
           /\ progress = attempts
           /\ captured = SeqTo(attempts)
           /\ ~AllFailed(tried)
           /\ ~IsSome(decoded) /\ ~IsErr(decoded)
    /\ ExhaustedMessage(attempts) \notin CaptureMessages \cup {TempDirMessage}
    /\ ~starts_with(ExhaustedMessage(attempts), OpenMessagePrefix)

\* C5 witness: two attempts captured and decoded images without a match and
\* the scan returned the exhaustion error for N = 2.
C5_Witness ==
    /\ pc = "done"
    /\ attempts = 2
    /\ Len(opened) >= 2
    /\ result = Err("no valid Signal Desktop QR found after 2 attempts")

\* C6: the k-th sleep of a scan follows attempt k, lasts `interval` seconds
\* and happens only for k < attempts; every attempt completed without a match
\* and before the last is followed by exactly one sleep and then by the next
\* attempt, and the last attempt by none, so a scan that exhausts N >= 1
\* attempts has slept exactly N - 1 times.
C6_SleepBetweenAttempts ==
    /\ \A k \in DOMAIN slept : slept[k] = <<k, interval>> /\ k < attempts
    /\ attempts >= 1 => Len(slept) = Min(progress, attempts - 1)
    /\ Len(slept) <= Len(captured) /\ Len(captured) <= Len(slept) + 1
    /\ (pc = "loop" /\ AttemptsRemain) => attempt = progress + 1 /\ Len(slept) = progress
    /\ (attempts >= 1 /\ result = Err(ExhaustedMessage(attempts))) =>
           Len(slept) = attempts - 1

\* C6 witness: a scan that exhausted two attempts and slept once, `interval`
\* seconds after attempt 1.
C6_Witness ==
    /\ pc = "done"
    /\ attempts = 2
    /\ result = Err(ExhaustedMessage(2))
    /\ slept = <<(<<1, interval>>)>>

\* C7: when every strategy of capture_screens_for_attempt failed in attempt
\* k, the scan has returned a capture error and nothing more can happen: no
\* image of attempt k was decoded, attempt k was not followed by a sleep and
\* attempt k + 1 was not captured.
C7_CaptureErrorEndsScan ==
    AllFailed(tried) =>
        /\ pc = "done"
        /\ IsErr(result)
        /\ result.val \in CaptureMessages
        /\ ~ENABLED Next
        /\ Len(captured) = attempt
        /\ Last(captured) = attempt
        /\ \A i \in DOMAIN opened : opened[i] \notin PathsOfAttempt(attempt)
        /\ Len(slept) = attempt - 1
        /\ progress = attempt - 1

\* C7 witness: every fallback of the first attempt failed while another
\* attempt remained.
C7_Witness ==
    /\ AllFailed(tried)
    /\ Len(tried) = 3
    /\ attempt = 1
    /\ attempts = 2
    /\ pc = "done"

NonZeroMessage == "screencapture failed (check Screen Recording permissions)"

\* C8 as claimed: for every display count, when the tool exits non-zero on
\* the first invocation of the scan and 0 on every later one, the budget
\* allows a second attempt and the payload is on screen, the scan returns the
\* payload.
C8_Original ==
    (/\ pc = "done"
     /\ qrVisible
     /\ tool = "fails_once"
     /\ toolCalls >= 1
     /\ attempts >= 2) =>
        result = Ok(Payload)

\* C8 amended: with the payload on screen and a tool that exits non-zero on
\* the first invocation of the scan and 0 on every later one, a scan over
\* more than one display returns the payload, from the library capture or
\* from the single-display invocation of the same attempt; a scan over one
\* display returns the non-zero-exit error after that one invocation,
\* whatever the budget.
C8_FallbackRecovers ==
    (pc = "done" /\ qrVisible /\ tool = "fails_once" /\ toolCalls >= 1) =>
        IF display_count > 1
        THEN /\ result = Ok(Payload)
             /\ tried[1] = Strategy("multi", FALSE)
             /\ Len(tried) >= 2 /\ Last(tried).ok
             /\ attempt = 1
        ELSE /\ result = Err(NonZeroMessage)
             /\ toolCalls = 1
             /\ Len(captured) = 1

\* C8 witness: over two displays the multi-display invocation exited
\* non-zero, the library capture failed, the single-display invocation
\* succeeded and the scan returned the payload.
C8_Witness ==
    /\ pc = "done"
    /\ qrVisible
    /\ tool = "fails_once"
    /\ display_count > 1
    /\ toolCalls = 2
    /\ Last(tried) = Strategy("single", TRUE)
    /\ result = Ok(Payload)

\* C9 as claimed: the scan returns an error only for an invalid budget
\* (before any capture), for a capture whose every strategy failed, or for
\* the exhaustion of all attempts.
C9_Original ==
    (pc = "done" /\ IsErr(result)) =>
        \/ (interval = 0 \/ attempts = 0) /\ captured = <<>>
        \/ AllFailed(tried) /\ result.val \in CaptureMessages
        \/ result = Err(ExhaustedMessage(attempts))

\* C9 amended: the scan returns an error in exactly four situations: the
\* temporary directory cannot be created (before anything else), every
\* strategy of a capture failed, a returned screenshot cannot be opened as an
\* image (the error of that decode call), or all attempts are exhausted.
C9_ErrorCauses ==
    (pc = "done" /\ IsErr(result)) =>
        \/ /\ result = Err(TempDirMessage)
           /\ ~displayQueried /\ captured = <<>>
        \/ /\ AllFailed(tried)
           /\ result.val \in CaptureMessages
        \/ /\ opened # <<>>
           /\ result = Err(OpenMessagePrefix \o Last(opened))
           /\ decoded = result
           /\ ~AllFailed(tried)
        \/ /\ result = Err(ExhaustedMessage(attempts))
           /\ progress = attempts

\* C9 witness: a capture returned the path of a file that could not be
\* opened and the scan returned the decode call's error.
C9_Witness ==
    /\ pc = "done"
    /\ IsErr(decoded)
    /\ result = Err("failed to open image screen-1.png")

StrategyOrder == <<"multi", "xcap", "single">>

ToolStrategies(t) == Cardinality({i \in DOMAIN t : t[i].strategy # "xcap"})

\* C10: for display_count > 1 a call of capture_screens_for_attempt runs the
\* strategies multi-display invocation, library capture, single-display
\* invocation in that order, each only after every earlier one failed and
\* each external one as one screencapture invocation; it stops at the first
\* that succeeds and returns its path list; it returns an error only when
\* all three failed.
C10_StrategyOrder ==
    [][(captured' # captured /\ display_count > 1) =>
         LET t == tried'
             n == Len(t)
         IN  /\ n \in 1..3
             /\ \A i \in 1..n : t[i].strategy = StrategyOrder[i] /\ (i < n => ~t[i].ok)
             /\ n < 3 => t[n].ok
             /\ toolCalls' = toolCalls + ToolStrategies(t)
             /\ IF t[n].ok
                THEN /\ pc' = "decode"
                     /\ queue' =
                          IF n = 1 THEN DisplayPaths(attempt, display_count)
                          ELSE IF n = 2 THEN DisplayPaths(attempt, Len(queue'))
                          ELSE <<SinglePath(attempt)>>
                     /\ queue' # <<>>
                ELSE /\ pc' = "done"
                     /\ IsErr(result')
                     /\ result'.val \in CaptureMessages]_vars

\* C10 witness: over two displays the first two strategies failed and the
\* third returned the single-display path.
C10_Witness ==
    /\ display_count > 1
    /\ tried = <<Strategy("multi", FALSE), Strategy("xcap", FALSE), Strategy("single", TRUE)>>
    /\ pc = "decode"
    /\ queue = <<SinglePath(attempt)>>
    /\ opened = <<>>

\* C11 as claimed: whenever a capture reported success, every path it
\* returned names a file that exists (the paths still queued for decoding are
\* on disk).
C11_Original ==
    pc = "decode" => \A i \in DOMAIN queue : queue[i] \in disk

\* C12: every call of capture_screen_images returns; a call whose process
\* never exits on its own returns the timeout error, after the clock passed
\* the timeout and the process was killed.
C12_CaptureReturns ==
    /\ []((cpc = "returned" /\ hangs /\ child # "none") =>
             /\ cres = Err(TimeoutMessage)
             /\ elapsed >= timeout
             /\ killed
             /\ child # "running")
    /\ (cpc = "start") ~> (cpc = "returned")

\* C12 witness: a call whose process hung has returned the timeout error.
C12_Witness ==
    /\ cpc = "returned"
    /\ hangs
    /\ elapsed >= SCREEN_CAPTURE_TIMEOUT_SECS * 1000
    /\ cres = Err("screencapture timed out after 12s (check Screen Recording permissions and active desktop session)")

\* C13: a call that returned the timeout error called kill and wait before
\* it returned, and its child is neither running nor left uncollected; kill
\* is reached only once the clock has passed the timeout, and a call that
\* reached it returns the timeout error, never success.
C13_TimeoutKillsAndReaps ==
    /\ (cpc = "returned" /\ cres = Err(TimeoutMessage)) =>
           /\ killed /\ waited
           /\ child \in {"reaped", "lost"}
    /\ cpc \in {"kill", "wait"} => elapsed >= timeout /\ cres = Pending
    /\ (killed \/ waited) => elapsed >= timeout
    /\ (cpc = "returned" /\ (killed \/ waited)) =>
           cres = Err(TimeoutMessage) /\ IsErr(cres)

\* C13 witness: a running child was killed at the timeout, collected, and the
\* call returned the timeout error.
C13_Witness ==
    /\ cpc = "returned"
    /\ cres = Err(TimeoutMessage)
    /\ status = "signal"
    /\ child = "reaped"

\* the capture processes that may be alive
Alive == orphans + (IF child = "running" THEN 1 ELSE 0)

C15_DisplayCountInRange ==
    (fn = "detect_display_count" /\ ret # Pending) =>
        ret.count \in 1..MAX_DETECTED_DISPLAYS

\* C15 witness: the tool is missing, the library enumerates more than six
\* monitors and the result is 6.
C15_Witness ==
    /\ fn = "detect_display_count"
    /\ ret # Pending
    /\ arg.profiler = "missing"
    /\ arg.monitors > 6
    /\ ret.count = 6

\* the output lines that begin with "Resolution:" as they stand
RECURSIVE LinesBeginningWith(_, _)
LinesBeginningWith(stdout, prefix) ==
    IF stdout = <<>>
    THEN 0
    ELSE (IF starts_with(Head(stdout), prefix) THEN 1 ELSE 0)
           + LinesBeginningWith(Tail(stdout), prefix)

Clamped(n) == IF n <= 0 THEN 1 ELSE IF n > 6 THEN 6 ELSE n

\* C16 as stated: when the system information query succeeds the result is
\* the number of output lines beginning with "Resolution:", clamped to 6, and
\* 1 when there is none, and the capture library is not consulted; when the
\* tool is missing or fails it is the number of monitors the library
\* enumerates, clamped to 6, when that is positive, and 1 otherwise.
C16_Original ==
    (fn = "detect_display_count" /\ ret # Pending) =>
        IF arg.profiler = "ok"
        THEN /\ ret.count =
                  Clamped(LinesBeginningWith(ProfilerOutput(arg.shown, arg.style),
                                             "Resolution:"))
             /\ ~ret.library
        ELSE /\ ret.count = Clamped(arg.monitors)
             /\ ret.library

\* C16 amended: the lines counted are those that begin with "Resolution:"
\* once their leading whitespace is ignored, which is how the tool prints one
\* line per display; the rest is as stated.
C16_DisplayCountValue ==
    (fn = "detect_display_count" /\ ret # Pending) =>
        IF arg.profiler = "ok"
        THEN /\ ret.count = (IF arg.shown = 0 THEN 1
                             ELSE IF arg.shown > 6 THEN 6 ELSE arg.shown)
             /\ ~ret.library
        ELSE /\ ret.count = (IF arg.monitors <= 0 THEN 1
                             ELSE IF arg.monitors > 6 THEN 6 ELSE arg.monitors)
             /\ ret.library

\* C16 witness: a successful query whose output has two indented resolution
\* lines gives 2 although the library would enumerate three monitors.
C16_Witness ==
    /\ fn = "detect_display_count"
    /\ ret # Pending
    /\ arg.profiler = "ok"
    /\ arg.shown = 2
    /\ arg.style = "spaces"
    /\ arg.monitors = 3
    /\ ret.count = 2

DecodedFile ==
    /\ fn = "decode_signal_qr_from_image"
    /\ ret # Pending
    /\ arg.file.loadable

\* C17: for an image file that can be loaded, decode_signal_qr_from_image
\* never returns an error; it returns None when no pass reads a QR code (a
\* blank image) and when the code that is read holds no payload.
C17_AbsenceIsNotAnError ==
    DecodedFile =>
        /\ ~IsErr(ret)
        /\ arg.code.from = 0 => ret = None
        /\ ~starts_with(trim(arg.code.text), SignalPrefix) => ret = None
        /\ ret = None \/ IsSome(ret)

\* C17 witness: every pass has run on a large capture in which the libraries
\* find nothing but a grid that fails to decode, and the result is None.
C17_Witness ==
    /\ DecodedFile
    /\ arg.file.w = 2560
    /\ arg.code.from = 0
    /\ arg.code.junk
    /\ ret = None

DecodeCalls ==
    {"decode_signal_qr_from_image", "decode_signal_qr_with_rxing",
     "decode_signal_qr_with_rqrr", "decode_signal_qr_with_rqrr_multipass"}

BackendBCalls == {"decode_signal_qr_with_rqrr", "decode_signal_qr_with_rqrr_multipass"}

\* a decode call has returned for a loadable image in which a code was read
DecodedBarcode ==
    /\ fn \in DecodeCalls
    /\ ret # Pending
    /\ arg.file.loadable
    /\ arg.code.from # 0

\* C18 as stated: a code whose text does not start with "sgnl://linkdevice"
\* yields None from Backend A, from Backend B, from its multipass ladder and
\* from the orchestrator.
C18_Original ==
    (DecodedBarcode /\ ~starts_with(arg.code.text, SignalPrefix)) => ret = None

\* C18 amended: a code whose text does not start with "sgnl://linkdevice"
\* yields None from Backend B and its ladder; from Backend A and the
\* orchestrator it yields None when the text does not start with the prefix
\* once surrounding whitespace is removed, and otherwise nothing but None or
\* the trimmed text, never an error and never the text itself.
C18_NonPayloadIsNoMatch ==
    (DecodedBarcode /\ ~starts_with(arg.code.text, SignalPrefix)) =>
        /\ fn \in BackendBCalls => ret = None
        /\ ~starts_with(trim(arg.code.text), SignalPrefix) => ret = None
        /\ ret \in {None, Some(trim(arg.code.text))}

\* C18 witness: Backend B has read a code holding a web address in an image,
\* after a grid that failed to decode, and returned None.
C18_Witness ==
    /\ DecodedBarcode
    /\ fn = "decode_signal_qr_with_rqrr"
    /\ arg.code.text = "https://signal.org/"
    /\ arg.code.junk
    /\ ret = None

\* the orchestrator has decoded a clean image of a valid payload: some pass
\* reads the code, and every pass that reads it reads the encoded text
DecodedCleanPayload ==
    /\ DecodedFile
    /\ arg.code.from # 0
    /\ starts_with(arg.code.text, SignalPrefix)

\* C19 as stated: the returned text equals the encoded text character for
\* character, whichever backend produces the match.
C19_Original ==
    DecodedCleanPayload => ret = Some(arg.code.text)

\* C19 amended: the returned text is the encoded text without its trailing
\* whitespace when a Backend A pass produces the match and the encoded text
\* as it is when a Backend B pass does; a payload that does not end in
\* whitespace round-trips exactly.
C19_RoundTrip ==
    DecodedCleanPayload =>
        /\ ret = Some(IF PassesOf(arg.file)[arg.code.from].backend = "rxing"
                      THEN trim_end(arg.code.text)
                      ELSE arg.code.text)
        /\ trim_end(arg.code.text) = arg.code.text => ret = Some(arg.code.text)

\* C19 witness: the payload is first read by a Backend B pass of the full
\* resolution ladder and comes back as encoded.
C19_Witness ==
    /\ DecodedCleanPayload
    /\ arg.code.text = Payload
    /\ arg.code.from > 5
    /\ PassesOf(arg.file)[arg.code.from].backend = "rqrr"
    /\ ret = Some(Payload)

Resized == fn = "resize_luma_to_max_dimension" /\ ret # Pending

LongerSide(image) == Max(image.w, image.h)

\* what the claim states of one call
ResizeContract ==
    IF LongerSide(arg) <= arg.max_dimension \/ (arg.w = 0 /\ arg.h = 0)
    THEN ret = BaseImage(arg.w, arg.h)
    ELSE /\ LongerSide(ret) <= arg.max_dimension
         /\ LongerSide(ret) = arg.max_dimension

\* C20 as stated: for any image and any maxDim the image is returned
\* unchanged when its longer side is within maxDim (or it is empty), and
\* otherwise the longer side of the result equals maxDim.
C20_Original == Resized => ResizeContract

\* C20 amended: the statement holds for maxDim >= 1; for maxDim = 0 an image
\* that is not empty is scaled to 1 x 1, every side being at least one pixel.
C20_ResizeWithinBound ==
    Resized =>
        /\ arg.max_dimension >= 1 => ResizeContract
        /\ (arg.max_dimension = 0 /\ arg.w > 0) => (ret.w = 1 /\ ret.h = 1)
        /\ arg.w > 0 => (ret.w >= 1 /\ ret.h >= 1)

\* C20 witness: a 10 x 8 image bounded to 6 becomes 6 x 5.
C20_Witness ==
    /\ Resized
    /\ arg.w = 10 /\ arg.h = 8 /\ arg.max_dimension = 6
    /\ ret.w = 6 /\ ret.h = 5

Scaled == fn = "scale_luma_image" /\ ret # Pending

\* side * f of the real numbers, rounded half away from zero, at least 1
RoundedProduct(side, f) ==
    IF f.neg \/ f.m = 0 \/ side = 0
    THEN 1
    ELSE IF f.e >= 0
         THEN side * f.m * Pow2(f.e)
         ELSE Max(((side * f.m) + Pow2(-f.e - 1)) \div Pow2(-f.e), 1)

\* side * f lies below the half-integer above RoundedProduct(side, f) by no
\* more than 2^-23 of its value, the rounding error of one f32 product
JustBelowHalf(side, f) ==
    /\ ~f.neg /\ f.m # 0 /\ f.e < 0 /\ side > 0
    /\ LET gap == (((2 * RoundedProduct(side, f)) + 1) * Pow2(-f.e - 1)) - (side * f.m)
       IN  gap > 0 /\ gap <= (side * f.m) \div Pow2(23)

\* C21 as stated: the result has round(w * f) x round(h * f) pixels, each at
\* least 1, and for f = 1.0 it is the image itself.
C21_Original ==
    Scaled =>
        /\ ret.w = RoundedProduct(arg.w, arg.scale)
        /\ ret.h = RoundedProduct(arg.h, arg.scale)
        /\ arg.scale = F32One => ret = BaseImage(arg.w, arg.h)

ScaledSide(side, scaled, f) ==
    \/ scaled = RoundedProduct(side, f)
    \/ scaled = RoundedProduct(side, f) + 1 /\ JustBelowHalf(side, f)

\* C21 amended: each dimension is round(side * f), at least 1, where the
\* product is the single precision one: a product that lies within its
\* rounding error below a half-integer gives the integer above.  For f = 1.0
\* the result is the image itself.
C21_ScaledDimensions ==
    Scaled =>
        /\ ScaledSide(arg.w, ret.w, arg.scale)
        /\ ScaledSide(arg.h, ret.h, arg.scale)
        /\ ret.w >= 1 /\ ret.h >= 1
        /\ arg.scale = F32One => ret = BaseImage(arg.w, arg.h)

\* C21 witness: a 10 x 8 image scaled by 0.5 has 5 x 4 pixels.
C21_Witness ==
    /\ Scaled
    /\ arg.w = 10 /\ arg.h = 8 /\ arg.scale = f32_lit(1, 2)
    /\ ret.w = 5 /\ ret.h = 4

Binarized(times) == fn = "threshold_luma_image" /\ ret # Pending /\ Len(ret.out) = times

Complement(image) ==
    PixelImage(image.w, image.h, [p \in DOMAIN image.px |-> 255 - image.px[p]])

\* C22 as stated: binarizing the output again with the same threshold and
\* polarity gives the same image.
C22_Original == Binarized(2) => ret.out[2] = ret.out[1]

\* C22 amended: binarizing again gives the same image when invert is false
\* and when the threshold is 0; with invert true and a threshold of 1..255 it
\* gives the pixel-wise complement of the first output.
C22_Reapplication ==
    Binarized(2) =>
        IF ~arg.invert \/ arg.threshold = 0
        THEN ret.out[2] = ret.out[1]
        ELSE ret.out[2] = Complement(ret.out[1])

\* C22 witness: the two-pixel image of the repository's test, binarized twice
\* at 150 with invert true, is the complement of its first output.
C22_Witness ==
    /\ Binarized(2)
    /\ arg.image.w = 2
    /\ arg.image.px[<<1, 1>>] = 100 /\ arg.image.px[<<2, 1>>] = 200
    /\ arg.threshold = 150 /\ arg.invert
    /\ ret.out[1].px[<<1, 1>>] = 255 /\ ret.out[2].px[<<1, 1>>] = 0

\* C23: the output has the dimensions of the input and each output sample
\* depends on the input sample at the same place alone: with invert false it
\* is 255 when the input sample is at least the threshold and 0 otherwise,
\* with invert true 0 and 255, the complement of the former.
C23_PerPixelRule ==
    Binarized(1) =>
        LET in  == arg.image
            out == ret.out[1]
        IN  /\ out.w = in.w /\ out.h = in.h
            /\ DOMAIN out.px = Coordinates(in.w, in.h)
            /\ \A p \in Coordinates(in.w, in.h) :
                 LET plain == IF in.px[p] >= arg.threshold THEN 255 ELSE 0
                 IN  out.px[p] = IF arg.invert THEN 255 - plain ELSE plain

\* C23 witness: a sample of 150 at threshold 150 gives 255 with invert false.
C23_Witness ==
    /\ Binarized(1)
    /\ arg.image.w = 1
    /\ arg.image.px[<<1, 1>>] = 150
    /\ arg.threshold = 150 /\ ~arg.invert
    /\ ret.out[1].px[<<1, 1>>] = 255

\* C24: link_desktop_live with interval = 0 or attempts = 0 returns the error
\* "interval and attempts must be > 0" and at no time does anything outside
\* the process: no check for the capture tool, no launch of Signal Desktop,
\* no scan, no signal-cli command.
C24_ValidatedBeforeIO ==
    (proc = "link_desktop_live" /\ (pin.interval = 0 \/ pin.attempts = 0)) =>
        /\ io = <<>>
        /\ ppc \in {"start", "returned"}
        /\ ppc = "returned" => pret = Err("interval and attempts must be > 0")

\* C24 witness: the call with an interval of 2 and 0 attempts has returned.
C24_Witness ==
    /\ proc = "link_desktop_live"
    /\ pin.interval = 2 /\ pin.attempts = 0
    /\ ppc = "returned"
    /\ pret = Err("interval and attempts must be > 0")
    /\ io = <<>>

\* the entries of io that are runs of signal-cli, sleeps, runs with a given outcome
Runs == {i \in DOMAIN io : io[i].op = "signal-cli"}
Sleeps == {i \in DOMAIN io : io[i].op = "sleep"}
RunsEnding(outcome) == {i \in Runs : io[i].outcome = outcome}

RetriesReturned == proc = "run_signal_cli_with_retries" /\ ppc = "returned"

\* C25: run_signal_cli_with_retries runs the command at most `attempts` times
\* and nothing after the first success; k failures and a success are k + 1
\* runs and Ok; `attempts` failures are `attempts` runs, a delay between two
\* runs and none after the last, and the error "<label> failed after
\* <attempts> attempts"; attempts = 0 is the error "attempts must be > 0"
\* without a run.
C25_RetriesBounded ==
    proc = "run_signal_cli_with_retries" =>
        /\ Cardinality(Runs) <= pin.attempts
        /\ \A i \in RunsEnding("exit 0") : i = Len(io) /\ ppc = "returned"
        /\ \A i \in Sleeps :
             /\ 1 < i /\ io[i - 1].op = "signal-cli" /\ io[i - 1].outcome = "exit 1"
             /\ ppc = "returned" => (i < Len(io) /\ io[i + 1].op = "signal-cli")
             /\ io[i].args = <<ToString(pin.delay_secs)>>
        /\ (RetriesReturned /\ IsOk(pret)) =>
             /\ io[Len(io)].outcome = "exit 0"
             /\ Cardinality(Runs) = Cardinality(RunsEnding("exit 1")) + 1
        /\ (RetriesReturned /\ Cardinality(RunsEnding("exit 1")) = pin.attempts /\ pin.attempts > 0) =>
             /\ IsErr(pret)
             /\ starts_with(pret.val, pin.label \o " failed after "
                                        \o ToString(pin.attempts) \o " attempts")
             /\ Cardinality(Runs) = pin.attempts
             /\ Cardinality(Sleeps) = pin.attempts - 1
        /\ (RetriesReturned /\ pin.attempts = 0) =>
             /\ io = <<>>
             /\ IsErr(pret) /\ contains(pret.val, "attempts must be > 0")

\* C25 witness: with three attempts the command failed twice and then
\* succeeded: three runs, two delays, Ok.
C25_Witness ==
    /\ RetriesReturned
    /\ pin.attempts = 3
    /\ IsOk(pret)
    /\ Cardinality(Runs) = 3
    /\ Cardinality(RunsEnding("exit 1")) = 2
    /\ Cardinality(Sleeps) = 2

\* the text holds one of the four rate-limit markers
HasRateLimitMarker(text) ==
    \E m \in {"ExternalServiceFailureException", "StatusCode: 502",
              "StatusCode: 429", "RateLimit"} : contains(text, m)

CliCalled == fn = "run_signal_cli" /\ ret # Pending

\* C26: a zero exit status is Ok(true); a non-zero exit with allow_failure is
\* Ok(false); without allow_failure it is an error: SignalCliRateLimited when
\* stdout or stderr holds a rate-limit marker, else RegisterFailed for
\* "register" and SignalCliCommandFailed naming the command ("unknown" with no
\* arguments) for any other command.
C26_OutcomeOfInvocation ==
    CliCalled =>
        LET out == arg.output
            name == IF arg.args = <<>> THEN "unknown" ELSE arg.args[1]
        IN  IF out.success THEN ret = Ok(TRUE)
            ELSE IF arg.allow_failure THEN ret = Ok(FALSE)
            ELSE IF HasRateLimitMarker(out.stdout) \/ HasRateLimitMarker(out.stderr)
                 THEN ret = Err("signal-cli rate limited request (StatusCode 429/502). Try again with a fresh captcha and network/IP change if needed.")
            ELSE IF name = "register"
                 THEN ret = Err("signal-cli 'register' command failed")
                 ELSE ret = Err("signal-cli '" \o name \o "' command failed")

\* C26 witness: a failed command other than register whose marker is on
\* stdout only, failure not allowed: the rate-limit error.
C26_Witness ==
    /\ CliCalled
    /\ ~arg.output.success /\ ~arg.allow_failure
    /\ arg.args # <<>> /\ arg.args[1] = "listDevices"
    /\ arg.output.stdout = "[RateLimit]" /\ arg.output.stderr = "Failed to link"
    /\ ret = Err(SignalCliRateLimited)

\* the secret is nowhere in the argument vector
NotInArguments(secret, argv) == \A i \in DOMAIN argv : ~contains(argv[i], secret)

VerifiedWithPin == fn = "verify_code" /\ ret # Pending /\ IsSome(arg.pin)
PinSet == fn = "set_registration_lock_pin" /\ ret # Pending

\* C27: the registration-lock PIN, and the verification code sent with a
\* pin, reach the container on standard input only: the docker command line
\* of set_registration_lock_pin and of verify_code with a pin is the same for
\* any two secret values, and holds none of them.
C27_SecretsOnStdinOnly ==
    /\ VerifiedWithPin =>
         /\ \A c \in VerificationCodes, p \in Pins :
              verify_code(arg.cfg, arg.user, c, Some(p)).argv = ret.argv
         /\ NotInArguments(arg.code, ret.argv)
         /\ NotInArguments(arg.pin.val, ret.argv)
         /\ ret.stdin = arg.code \o "\n" \o arg.pin.val \o "\n"
    /\ PinSet =>
         /\ \A p \in Pins : set_registration_lock_pin(arg.cfg, arg.user, p).argv = ret.argv
         /\ NotInArguments(arg.pin, ret.argv)
         /\ ret.stdin = arg.pin \o "\n"

\* C27 witness: verify_code with a pin on the Linux build wrote the code and
\* the pin to the standard input of a docker process.
C27_Witness ==
    /\ VerifiedWithPin
    /\ arg.code = "654321" /\ arg.pin = Some("97531") /\ IsSome(arg.user)
    /\ ret.argv[1] = "docker"
    /\ ret.stdin = "654321\n97531\n"

\* C27 second case: set_registration_lock_pin wrote the pin to standard input.
C27_WitnessSetPin == PinSet /\ ret.stdin = "0000\n" /\ ret.argv[1] = "docker"

\* the signal-cli commands run so far, by name and in order
CommandsRun == [i \in DOMAIN io |-> io[i].args[1]]

CommandRank(name) ==
    CASE name = "addDevice"    -> 1
      [] name = "receive"      -> 2
      [] name = "sendContacts" -> 3
      [] name = "listDevices"  -> 4
      [] OTHER                 -> 0

Times(name) == Cardinality({i \in DOMAIN io : CommandsRun[i] = name})

FromUriCalled == proc = "link_desktop_from_uri"

\* C28: link_desktop_from_uri refuses a URI that does not start with
\* "sgnl://linkdevice" with an "invalid URI" error before any signal-cli
\* command; for a valid URI addDevice runs first, then the receive passes,
\* then sendContacts, then listDevices, and nothing runs after a failed
\* addDevice.
C28_LinkOrder ==
    FromUriCalled =>
        /\ ~starts_with(pin.uri, "sgnl://linkdevice") =>
             /\ io = <<>>
             /\ ppc \in {"from_uri", "returned"}
             /\ ppc = "returned" => (IsErr(pret) /\ contains(pret.val, "invalid URI"))
        /\ io # <<>> =>
             /\ io[1].op = "signal-cli"
             /\ io[1].args = <<"addDevice", "--uri", pin.uri>>
             /\ io[1].outcome # "exit 0" =>
                  (Len(io) = 1 /\ ppc = "returned" /\ IsErr(pret))
        /\ \A i \in DOMAIN io : CommandRank(CommandsRun[i]) > 0
        /\ \A i, j \in DOMAIN io :
             i < j => CommandRank(CommandsRun[i]) <= CommandRank(CommandsRun[j])
        /\ Times("addDevice") <= 1 /\ Times("sendContacts") <= 1 /\ Times("listDevices") <= 1
        /\ (ppc = "returned" /\ Len(io) > 1) =>
             /\ Times("receive") >= 1
             /\ Times("sendContacts") = 1
             /\ Times("listDevices") = 1

\* C28 witness: a valid URI was linked: addDevice, two receive passes (the
\* second failed), sendContacts and listDevices ran, in that order.
C28_Witness ==
    /\ FromUriCalled /\ ppc = "returned" /\ IsOk(pret)
    /\ CommandsRun = <<"addDevice", "receive", "receive", "sendContacts", "listDevices">>
    /\ io[3].outcome = "exit 1"

\* the entries of io that are `docker info` runs, start attempts
DockerInfos == {i \in DOMAIN io : io[i].op = "docker"}
StartAttempts == {i \in DOMAIN io : io[i].op = "try_start_docker"}
\* the polls: the `docker info` runs after the start attempt
Polls == {i \in DockerInfos : \E j \in StartAttempts : j < i}

DockerReturned == proc = "ensure_docker_ready" /\ ppc = "returned"

OutcomeNotInstalled ==
    /\ pret = Err("Docker is not installed. Install Docker Desktop/Engine and retry.")
    /\ io = <<Did("command_exists", <<"docker">>, "missing")>>

OutcomeAlreadyReady ==
    /\ pret = Ok("()")
    /\ StartAttempts = {}
    /\ Len(io) = 2 /\ io[1].outcome = "found" /\ io[2] = Did("docker", <<"info">>, "ready")

OutcomeStartFailed ==
    /\ pret = Err("Docker is installed but could not be started automatically. Start Docker manually and retry.")
    /\ Len(io) = 3 /\ io[1].outcome = "found"
    /\ io[2] = Did("docker", <<"info">>, "not_ready")
    /\ io[3] = Did("try_start_docker", <<>>, "failed")
    /\ Polls = {}

OutcomePolledReady ==
    /\ pret = Ok("()")
    /\ Cardinality(StartAttempts) = 1 /\ io[3].outcome = "started"
    /\ Polls # {}
    /\ \A i \in Polls : io[i].outcome = (IF i = Len(io) THEN "ready" ELSE "not_ready")
    /\ Len(io) \in Polls

OutcomeTimedOut ==
    /\ pret = Err("Docker start timed out after 90 seconds. Open Docker Desktop and retry.")
    /\ Cardinality(StartAttempts) = 1 /\ io[3].outcome = "started"
    /\ Polls # {}
    /\ \A i \in Polls : io[i].outcome = "not_ready"
    /\ locals.elapsed >= 90 * 1000

OutcomeInfoNotRun ==
    /\ pret = Err("failed to run docker info")
    /\ Len(io) \in DockerInfos
    /\ io[Len(io)].outcome = "spawn_error"
    /\ \A i \in DockerInfos : i < Len(io) => io[i].outcome = "not_ready"

C29_Outcomes ==
    /\ DockerReturned =>
         Cardinality({k \in 1..6 :
             \/ k = 1 /\ OutcomeNotInstalled
             \/ k = 2 /\ OutcomeAlreadyReady
             \/ k = 3 /\ OutcomeStartFailed
             \/ k = 4 /\ OutcomePolledReady
             \/ k = 5 /\ OutcomeTimedOut
             \/ k = 6 /\ OutcomeInfoNotRun}) = 1
    /\ proc = "ensure_docker_ready" =>
         \A i \in DockerInfos : io[i].outcome # "not_ready" => (i = Len(io) /\ ppc = "returned")

PassesRun == Tail(io)

\* the capture and its fast variant
CaptureImage == BaseImage(pin.file.w, pin.file.h)
FastVariant == resize_luma_to_max_dimension(CaptureImage, 1600)
Unbinarized(image) == [image EXCEPT !.bin = NoThreshold]

Decoding == proc = "decode_signal_qr_from_image" /\ io # <<>> /\ pin.file.loadable

\* C30: decode_signal_qr_from_image runs Backend A on the fast variant (at
\* most 1600 px on the longer side), then Backend B's short ladder on the fast
\* variant (three passes), then the stage chosen by the pixel count, Backend A
\* first and Backend B after it; no pass runs after a match, and the result
\* is that match, or None after every pass has run.
C30_StrategyOrder ==
    Decoding =>
        /\ Max(FastVariant.w, FastVariant.h) <= 1600
        /\ \A i \in DOMAIN PassesRun :
             LET run == PassesRun[i]
             IN  /\ run.op = (IF i \in {1, 5} THEN "rxing" ELSE "rqrr")
                 /\ i = 1 => run.image = FastVariant
                 /\ i \in 2..4 => Unbinarized(run.image) = FastVariant
                 /\ i = 5 =>
                      IF pin.file.w * pin.file.h <= 3000000
                      THEN run.image = CaptureImage
                      ELSE /\ run.image.bin = NoThreshold
                           /\ run.image.from = Append(FastVariant.from,
                                                      <<FastVariant.w, FastVariant.h>>)
                 /\ IsSome(run.outcome) =>
                      /\ i = Len(PassesRun)
                      /\ ppc = "returned"
                      /\ pret = run.outcome
        /\ ppc = "returned" =>
             /\ pret = decode_signal_qr_from_image(ImagePath, pin.file,
                           BarcodeReads(PassesOf(pin.file), pin.code))
             /\ pret = None =>
                  Len(PassesRun) = (IF pin.file.w * pin.file.h <= 3000000
                                    THEN 4 + 1 + 21 ELSE 4 + 1 + 3)

\* C30 witness: Backend B matched in the short ladder on the fast variant of
\* a capture wider than 1600 px, and the decode returned then, although the
\* code would have been read in every later pass too.
C30_Witness ==
    /\ Decoding /\ ppc = "returned"
    /\ pin.file.w > 1600
    /\ pin.code.seen = "onward"
    /\ Len(PassesRun) = 3
    /\ IsSome(pret)
    /\ PassesRun[3].op = "rqrr"

\* C30, third stage: Backend A matched on the full-resolution capture after
\* the four passes on the fast variant had found nothing.
C30_WitnessThirdStage ==
    /\ Decoding /\ ppc = "returned" /\ IsSome(pret)
    /\ Len(PassesRun) = 5
    /\ PassesRun[5].op = "rxing" /\ PassesRun[5].image = CaptureImage

\* the stage after the fast variant: which one ran, told by its first pass
PixelCount == pin.file.w * pin.file.h
UpscaledFast == scale_luma_image(FastVariant, f32_lit(115, 100))
ThirdStageRan == Len(PassesRun) >= 5
FullStageRan == ThirdStageRan /\ PassesRun[5].image = CaptureImage
UpscaleStageRan == ThirdStageRan /\ PassesRun[5].image = UpscaledFast
FastVariantFailed ==
    Len(PassesRun) >= 4 /\ \A i \in 1..4 : ~IsSome(PassesRun[i].outcome)

\* the passes of the third stage: Backend A, then Backend B on images scaled
\* and binarized from `image`, at most `ladder` of them
StageOn(image, ladder) ==
    /\ Len(PassesRun) <= 5 + ladder
    /\ \A i \in 5..Len(PassesRun) :
         IF i = 5 THEN PassesRun[i].op = "rxing" /\ PassesRun[i].image = image
         ELSE PassesRun[i].op = "rqrr"

\* C31 as stated: the full-resolution stage runs only when the pixel count is
\* below 3,000,000 and the upscale stage only when it exceeds 3,000,000.
C31_Original ==
    Decoding =>
        /\ FullStageRan => PixelCount < 3000000
        /\ UpscaleStageRan => PixelCount > 3000000

\* C31: after both fast-variant strategies have failed exactly one of two
\* stages runs: the full-resolution stage (Backend A on the capture, then the
\* long ladder) when the pixel count is at most 3,000,000, the upscale stage
\* (Backend A on the fast variant scaled by 1.15, then the short ladder) when
\* it exceeds 3,000,000; never both, and neither before the fast variant
\* has failed.
C31_StageByPixelCount ==
    Decoding =>
        /\ ThirdStageRan => FastVariantFailed
        /\ (FastVariantFailed /\ ppc = "returned") => ThirdStageRan
        /\ ThirdStageRan => (FullStageRan /\ ~UpscaleStageRan) \/ (UpscaleStageRan /\ ~FullStageRan)
        /\ FullStageRan => (PixelCount <= 3000000 /\ StageOn(CaptureImage, 21))
        /\ UpscaleStageRan =>
             /\ PixelCount > 3000000
             /\ StageOn(UpscaledFast, 3)
             /\ \A i \in 6..Len(PassesRun) : Unbinarized(PassesRun[i].image) = UpscaledFast

\* C31 witness: a capture of exactly 3,000,000 pixels went through the
\* full-resolution stage and its long ladder to the end.
C31_Witness ==
    /\ Decoding /\ ppc = "returned"
    /\ PixelCount = 3000000
    /\ FullStageRan
    /\ Len(PassesRun) = 26

\* C31, the other stage: a larger capture went through the upscale stage.
C31_WitnessUpscale ==
    /\ Decoding /\ ppc = "returned"
    /\ PixelCount > 3000000
    /\ UpscaleStageRan
    /\ Len(PassesRun) = 8

\* the passes of the long ladder run so far (it follows five other passes)
LadderRun == IF FullStageRan THEN SubSeq(PassesRun, 6, Len(PassesRun)) ELSE <<>>

\* the scale factors in hundredths and the thresholds, in the claimed order
LadderScales == <<100, 85, 120>>
LadderThresholds == <<110, 140, 170>>

\* side `scaled` is side `side` times pct/100, rounded to the nearest pixel
ScaledBy(scaled, side, pct) ==
    /\ 100 * scaled >= pct * side - 50
    /\ 100 * scaled <= pct * side + 50

\* the k-th pass of the long ladder, as claimed: scale, then unbinarized or
\* threshold and polarity
LadderPassAsClaimed(k, image) ==
    LET pct == LadderScales[((k - 1) \div 7) + 1]
        j   == (k - 1) % 7
    IN  /\ ScaledBy(image.w, pin.file.w, pct)
        /\ ScaledBy(image.h, pin.file.h, pct)
        /\ IF j = 0
           THEN image.bin = NoThreshold
           ELSE image.bin = [on     |-> TRUE,
                             level  |-> LadderThresholds[((j - 1) \div 2) + 1],
                             invert |-> (j % 2 = 0)]

\* C32: the long ladder walks the scales 1.0, 0.85, 1.2; at each scale one
\* unbinarized pass, then the thresholds 110, 140, 170, each normal first and
\* inverted second; it stops at the first match, makes at most 21 Backend B
\* passes and gives None only after all 21 have failed.
C32_LongLadder ==
    (Decoding /\ FullStageRan) =>
        /\ Len(LadderRun) <= 21
        /\ \A k \in DOMAIN LadderRun :
             /\ LadderRun[k].op = "rqrr"
             /\ LadderPassAsClaimed(k, LadderRun[k].image)
             /\ IsSome(LadderRun[k].outcome) =>
                  (k = Len(LadderRun) /\ ppc = "returned" /\ pret = LadderRun[k].outcome)
        /\ (ppc = "returned" /\ pret = None) =>
             /\ Len(LadderRun) = 21
             /\ \A k \in 1..21 : LadderRun[k].outcome = None

\* C32 witness: the ladder matched in its tenth pass, at scale 0.85 on the
\* inverted image of threshold 110, after nine passes that found nothing.
C32_Witness ==
    /\ Decoding /\ FullStageRan /\ ppc = "returned"
    /\ Len(LadderRun) = 10
    /\ IsSome(pret)
    /\ LadderRun[10].image.w = 544 /\ LadderRun[10].image.h = 408
    /\ LadderRun[10].image.bin = [on |-> TRUE, level |-> 110, invert |-> TRUE]

\* the k-th image of the short ladder on `image`: the image itself, then its
\* binarizations at 128 and at 160, normal polarity
ShortLadderImage(image, k) ==
    IF k = 1 THEN image
    ELSE [image EXCEPT !.bin = [on |-> TRUE, level |-> (IF k = 2 THEN 128 ELSE 160),
                                invert |-> FALSE]]

\* pass i of the call is the k-th pass of a short ladder on `image`
ShortLadderPass(i, image, k) ==
    /\ PassesRun[i].op = "rqrr"
    /\ PassesRun[i].image = ShortLadderImage(image, k)
    /\ ~PassesRun[i].image.bin.invert
    /\ IsSome(PassesRun[i].outcome) =>
         (i = Len(PassesRun) /\ ppc = "returned" /\ pret = PassesRun[i].outcome)

\* C33: the short ladder is the image itself and its binarizations at 128,
\* then 160, never inverted, stopping at the first match; it is the Backend B
\* ladder of the fast-variant stage and of the upscale stage: every other
\* Backend B pass belongs to the full-resolution stage, whose operand is the
\* full image, and none of them is on the upscaled variant.
C33_ShortLadder ==
    Decoding =>
        /\ \A i \in 2..4 : i <= Len(PassesRun) => ShortLadderPass(i, FastVariant, i - 1)
        /\ UpscaleStageRan =>
             /\ Len(PassesRun) <= 8
             /\ \A i \in 6..Len(PassesRun) : ShortLadderPass(i, UpscaledFast, i - 5)
        /\ \A i \in DOMAIN PassesRun :
             PassesRun[i].op = "rqrr" =>
                 \/ i \in 2..4
                 \/ UpscaleStageRan /\ i \in 6..8
                 \/ FullStageRan /\ i >= 6 /\ Unbinarized(PassesRun[i].image) # UpscaledFast

\* C33 witness: on a capture wider than 1600 px the short ladder matched on
\* the fast variant binarized at 160, its third and last pass.
C33_Witness ==
    /\ Decoding /\ ppc = "returned" /\ IsSome(pret)
    /\ FastVariant # CaptureImage
    /\ Len(PassesRun) = 4
    /\ PassesRun[4].image.bin = [on |-> TRUE, level |-> 160, invert |-> FALSE]
    /\ ~IsSome(PassesRun[2].outcome) /\ ~IsSome(PassesRun[3].outcome)

\* C33, upscale stage: the short ladder ran to its end on the upscaled variant.
C33_WitnessUpscaled ==
    /\ Decoding /\ ppc = "returned" /\ pret = None
    /\ UpscaleStageRan
    /\ Len(PassesRun) = 8
    /\ PassesRun[8].image = ShortLadderImage(UpscaledFast, 3)

\* C34 as claimed: the image files of an attempt are discarded at its end:
\* when attempt k+1 is about to capture, or has captured, no file of attempt
\* k or of an earlier attempt exists.
C34_Original ==
    (pc \in {"loop", "decode"} /\ attempt > 1 /\ attempt <= attempts) =>
        \A k \in 1..(attempt - 1) : disk \cap PathsOfAttempt(k) = {}

\* the scan has returned after at least one screenshot was written and opened
ReturnedAfterCapture == pc = "done" /\ opened # <<>>

\* C35: when scan_screen_for_signal_uri has returned, by whichever path, the
\* temporary directory and every screenshot file are gone; while it runs,
\* screenshot files exist only in the temporary directory, under the names
\* of the attempts made so far.
C35_NothingSurvivesReturn ==
    /\ pc = "done" => (~tempDir /\ disk = {})
    /\ disk # {} =>
         /\ tempDir
         /\ disk \subseteq UNION {PathsOfAttempt(k) : k \in 1..attempt}

\* C35 witness: the scan ran out of attempts after two attempts had each
\* written and decoded a screenshot; nothing is left.
C35_Witness ==
    /\ ReturnedAfterCapture
    /\ result = Err(ExhaustedMessage(2))
    /\ captured = <<1, 2>>
    /\ Len(opened) >= 2
    /\ disk = {} /\ ~tempDir

\* C35, the other return paths: payload found, capture error after an
\* attempt that wrote files, decode error
C35_WitnessFound == ReturnedAfterCapture /\ IsOk(result) /\ disk = {}
C35_WitnessCaptureError ==
    /\ ReturnedAfterCapture /\ IsErr(result) /\ captured = <<1, 2>>
    /\ result # Err(ExhaustedMessage(2))
    /\ IsOk(decoded) \/ decoded = None
    /\ disk = {}
C35_WitnessDecodeError == ReturnedAfterCapture /\ IsErr(decoded) /\ result = decoded /\ disk = {}

\* the file names as claimed
NameOfDisplay(a, i) == "screen-" \o ToString(a) \o "-display-" \o ToString(i) \o ".png"
NameOfSingle(a) == "screen-" \o ToString(a) \o ".png"
NamesOf(a) == {NameOfSingle(a)} \cup {NameOfDisplay(a, i) : i \in 1..12}

\* attempt numbers of one, two and three digits
SampleAttempts == {1, 2, 3, 10, 11, 12, 21, 90, 111}

\* names of different attempts differ, and so do the names of one attempt
NamesDistinct ==
    /\ \A a, b \in SampleAttempts : a # b => NamesOf(a) \cap NamesOf(b) = {}
    /\ \A a \in SampleAttempts : Cardinality(NamesOf(a)) = 13

\* C36: the paths an attempt returns are "screen-<attempt>.png" alone or
\* "screen-<attempt>-display-<index>.png" for the indices 1, 2, ... in order;
\* they are pairwise distinct, differ from every name of another attempt, and
\* every file on disk bears the name of the attempt that wrote it.
C36_PathNames ==
    /\ NamesDistinct
    /\ pc = "decode" =>
         /\ \A i \in DOMAIN queue : queue[i] \in NamesOf(attempt)
         /\ \A i, j \in DOMAIN queue : i # j => queue[i] # queue[j]
         /\ \A i \in DOMAIN queue, k \in 1..(attempt - 1) : queue[i] \notin NamesOf(k)
    /\ (pc = "decode" /\ queue # <<>>) =>
         IF Last(tried).strategy = "single"
         THEN queue = <<NameOfSingle(attempt)>>
         ELSE \E d \in 1..12 :
                \A i \in DOMAIN queue : queue[i] = NameOfDisplay(attempt, d + i - 1)
    /\ \A p \in disk : \E k \in 1..attempt : p \in NamesOf(k)

\* C36 witness: the second attempt returned one path per display while the
\* file of the first attempt, a single capture, was still on disk.
C36_Witness ==
    /\ pc = "decode"
    /\ attempt = 2
    /\ queue = <<"screen-2-display-1.png", "screen-2-display-2.png">>
    /\ "screen-1.png" \in disk

\* Backend B has returned for an image with the grids arg.grids
GridsDecoded == fn = "decode_signal_qr_with_rqrr on grids" /\ ret # Pending

\* the grids that decode to a text starting with "sgnl://linkdevice"
PayloadGrids ==
    {i \in DOMAIN arg.grids :
        arg.grids[i].tag = "Ok" /\ starts_with(arg.grids[i].val, "sgnl://linkdevice")}

\* C37: decode_signal_qr_with_rqrr returns the content of the first grid, in
\* detection order, that decodes and starts with "sgnl://linkdevice", and
\* None when there is none; grids that fail to decode or hold other text
\* before it do not end the search.
C37_FirstPayloadGrid ==
    GridsDecoded =>
        IF PayloadGrids = {}
        THEN ret = None
        ELSE \E i \in PayloadGrids :
               /\ \A j \in PayloadGrids : i <= j
               /\ ret = Some(arg.grids[i].val)

\* C37 witness: a grid that failed to decode and a grid holding a web address
\* came before the payload, which was returned.
C37_Witness ==
    /\ GridsDecoded
    /\ arg.grids = <<Err(""), Ok("https://signal.org/"), Ok(Payload)>>
    /\ ret = Some(Payload)

CapturedForAttempt == fn = "capture_screens_for_attempt" /\ ret # Pending

\* C38: capture_screens_for_attempt returns an error or at least one path,
\* for every display count, 0 and 1 included, and every combination of
\* strategy successes and failures.
C38_NeverOkEmpty ==
    CapturedForAttempt =>
        \/ ret.res.tag = "Err"
        \/ ret.res.tag = "Ok" /\ Len(ret.res.val) >= 1

\* C38 witness: with a display count of 0 the library capture found no
\* monitor and returned an empty list; the single capture followed and its
\* one path was returned.
C38_Witness ==
    /\ CapturedForAttempt
    /\ arg.display_count = 0 /\ ~arg.macos
    /\ arg.xcap = [enumerated |-> TRUE, monitors |-> 0, saved |-> 0]
    /\ ret.res = Ok(<<"screen-1.png">>)

\* C38, the error: every strategy failed for two displays.
C38_WitnessError ==
    /\ CapturedForAttempt
    /\ arg.display_count = 2
    /\ Len(ret.tried) = 3
    /\ ret.res.tag = "Err"


\* the i-th and the j-th pass give the same backend the same image
Repeats(i, j) ==
    /\ i < j
    /\ PassesRun[i].op = PassesRun[j].op
    /\ PassesRun[i].image = PassesRun[j].image

CaptureLongerSide == LongerSide(CaptureImage)

NoRepeat == \A i, j \in 1..Len(PassesRun) : ~Repeats(i, j)

\* C39 as stated: within one decode call no backend is given the same image
\* twice, also when the fast variant equals the full image
C39_Original == Decoding => NoRepeat

\* C39: a capture of more than QR_RXING_MAX_PIXELS pixels gives no backend
\* the same image twice.  A capture whose longer side is at most
\* QR_FAST_MAX_DIMENSION has a fast variant equal to the full image, and its
\* full-resolution stage repeats passes: Backend A decodes the full image it
\* decoded first (passes 1 and 5), and the long ladder of Backend B starts with
\* the unbinarized image the short ladder started with (passes 2 and 6).  In
\* between, a repeat is a long-ladder pass on a scaled candidate that has
\* the dimensions of the fast variant, repeating a pass of the fast stage
C39_RepeatsOnlyAcrossStages ==
    Decoding =>
        /\ ~FullResolutionAffordable(PixelCount) => NoRepeat
        /\ CaptureLongerSide <= QR_FAST_MAX_DIMENSION =>
              /\ FastVariant = CaptureImage
              /\ Len(PassesRun) >= 5 => Repeats(1, 5) /\ PassesRun[5].op = "rxing"
              /\ Len(PassesRun) >= 6 => Repeats(2, 6) /\ PassesRun[6].op = "rqrr"
        /\ (FullResolutionAffordable(PixelCount) /\ CaptureLongerSide > QR_FAST_MAX_DIMENSION) =>
              \A i, j \in 1..Len(PassesRun) :
                  Repeats(i, j) =>
                      /\ i <= 4 /\ j > 5
                      /\ PassesRun[j].image # CaptureImage
                      /\ PassesRun[j].image.w = FastVariant.w
                      /\ PassesRun[j].image.h = FastVariant.h

\* a small capture has reached the second pass of its full-resolution stage
C39_Witness ==
    /\ Decoding
    /\ CaptureLongerSide <= QR_FAST_MAX_DIMENSION
    /\ Len(PassesRun) >= 6

\* a large capture has run its whole last stage
C39_WitnessLarge ==
    /\ Decoding
    /\ ~FullResolutionAffordable(PixelCount)
    /\ Len(PassesRun) = 8

\* a capture in between repeats a fast-stage pass on a scaled candidate
C39_WitnessCoinciding ==
    /\ Decoding
    /\ pin.file = CoincidingFile
    /\ \E i, j \in 1..Len(PassesRun) : Repeats(i, j)

\* the receive passes run so far, as positions in io
ReceivePasses == {i \in DOMAIN io : CommandsRun[i] = "receive"}

\* addDevice succeeded, so run_post_link_sync was entered
SyncEntered == FromUriCalled /\ io # <<>> /\ io[1].outcome = "exit 0"

\* run_post_link_sync is over: sendContacts has been attempted
SyncOver == SyncEntered /\ ppc \in {"list_devices", "returned"}

\* C40: run_post_link_sync runs at most POST_LINK_SYNC_PASSES receive passes,
\* no pass follows one that failed or could not be run, sendContacts is then
\* attempted exactly once whatever the passes gave, and no outcome of the
\* sync ends link_desktop_from_uri: once addDevice has succeeded the call
\* returns only after listDevices, and with the result of listDevices alone.
C40_SyncNeverStopsLink ==
    SyncEntered =>
        /\ Cardinality(ReceivePasses) <= POST_LINK_SYNC_PASSES
        /\ \A i, j \in ReceivePasses : i < j => io[i].outcome = "exit 0"
        /\ SyncOver =>
              /\ Cardinality(ReceivePasses) >= 1
              /\ Times("sendContacts") = 1
              /\ \/ Cardinality(ReceivePasses) = POST_LINK_SYNC_PASSES
                 \/ \E i \in ReceivePasses : io[i].outcome # "exit 0"
        /\ ppc = "returned" =>
              /\ Times("sendContacts") = 1
              /\ Times("listDevices") = 1
              /\ CommandsRun[Len(io)] = "listDevices"
              /\ CommandsRun[Len(io) - 1] = "sendContacts"
              /\ IsOk(pret) <=> io[Len(io)].outcome = "exit 0"

\* C40 witness: the first receive pass failed and sendContacts could not be
\* run, and the call still listed the devices and returned Ok
C40_Witness ==
    /\ SyncEntered /\ ppc = "returned" /\ IsOk(pret)
    /\ CommandsRun = <<"addDevice", "receive", "sendContacts", "listDevices">>
    /\ io[2].outcome = "exit 1"
    /\ io[3].outcome = "spawn_error"

\* C40 second case: all POST_LINK_SYNC_PASSES passes succeeded
C40_WitnessAllPasses ==
    /\ SyncEntered /\ ppc = "returned"
    /\ Cardinality(ReceivePasses) = POST_LINK_SYNC_PASSES
    /\ \A i \in ReceivePasses : io[i].outcome = "exit 0"

\* C40, as progress: once run_post_link_sync is entered the call reaches
\* listDevices and returns
C40_ReachesListDevices ==
    SyncEntered ~> (FromUriCalled /\ ppc = "returned" /\ Times("listDevices") = 1)
=============================================================================
